---- MODULE Spec2Model ----
(***************************************************************************)
(* Model of the attribute-resolution and record-reconciliation engine of   *)
(* the Jira Assets manager: the assignee workflow, the retirement          *)
(* workflow, the bulk runs built on them and the schema migration.         *)
(*                                                                         *)
(* Text is modelled by TLA+ strings; the Python value None is the          *)
(* distinguished string None, which no backend value equals.               *)
(***************************************************************************)
EXTENDS Integers, Sequences, FiniteSets, TLC

VARIABLES
    mode,             \* the operation mode of the run: main() dispatches on it
    objects,          \* backend record store: the stored records, in backend order
    userDisplay,      \* how the backend renders a user-typed value: "raw" or "name"
    user_cache,       \* JiraUserClient.user_cache: normalized email -> user
    attribute_cache,  \* JiraAssetsClient.attribute_cache: cached object type ids
    list_cache,       \* cache_manager: the cached lists, one entry per cache key
    calls,            \* mutating backend calls issued by the last operation
    pre,              \* the record store as it was when the last operation began
    last,             \* the last operation: its inputs, faults and outcome
    throttle          \* the clock, each client's last_request_time, the calls sent

vars == <<mode, objects, userDisplay, user_cache, attribute_cache, list_cache, calls,
          pre, last, throttle>>

None == "<None>"

(* no client constructed, nothing sent: the workflows of the other
   specifications are taken at the level of whole backend calls *)
NoTraffic == [now |-> 0, auth_method |-> "basic", last_request_time |-> << >>, sent |-> << >>]

(* Python evaluates an expression once and then names its value: the body F
   applied to the one value in its domain *)
ByValue(F) == F[CHOOSE v \in DOMAIN F : TRUE]

-----------------------------------------------------------------------------
(* Python string primitives used by the code *)

LowerCase ==
    [c \in {"A", "B", "C", "D", "E", "F", "G", "H", "I", "J", "K", "L", "M",
            "N", "O", "P", "Q", "R", "S", "T", "U", "V", "W", "X", "Y", "Z"} |->
        CASE c = "A" -> "a" [] c = "B" -> "b" [] c = "C" -> "c" [] c = "D" -> "d"
          [] c = "E" -> "e" [] c = "F" -> "f" [] c = "G" -> "g" [] c = "H" -> "h"
          [] c = "I" -> "i" [] c = "J" -> "j" [] c = "K" -> "k" [] c = "L" -> "l"
          [] c = "M" -> "m" [] c = "N" -> "n" [] c = "O" -> "o" [] c = "P" -> "p"
          [] c = "Q" -> "q" [] c = "R" -> "r" [] c = "S" -> "s" [] c = "T" -> "t"
          [] c = "U" -> "u" [] c = "V" -> "v" [] c = "W" -> "w" [] c = "X" -> "x"
          [] c = "Y" -> "y" [] c = "Z" -> "z"]

UpperCase ==
    [c \in {"a", "b", "c", "d", "e", "f", "g", "h", "i", "j", "k", "l", "m",
            "n", "o", "p", "q", "r", "s", "t", "u", "v", "w", "x", "y", "z"} |->
        CASE c = "a" -> "A" [] c = "b" -> "B" [] c = "c" -> "C" [] c = "d" -> "D"
          [] c = "e" -> "E" [] c = "f" -> "F" [] c = "g" -> "G" [] c = "h" -> "H"
          [] c = "i" -> "I" [] c = "j" -> "J" [] c = "k" -> "K" [] c = "l" -> "L"
          [] c = "m" -> "M" [] c = "n" -> "N" [] c = "o" -> "O" [] c = "p" -> "P"
          [] c = "q" -> "Q" [] c = "r" -> "R" [] c = "s" -> "S" [] c = "t" -> "T"
          [] c = "u" -> "U" [] c = "v" -> "V" [] c = "w" -> "W" [] c = "x" -> "X"
          [] c = "y" -> "Y" [] c = "z" -> "Z"]

LowerChar(c) == IF c \in DOMAIN LowerCase THEN LowerCase[c] ELSE c

RECURSIVE Lower(_)
Lower(s) ==
    IF Len(s) = 0 THEN ""
    ELSE LowerChar(SubSeq(s, 1, 1)) \o Lower(SubSeq(s, 2, Len(s)))

UpperChar(c) == IF c \in DOMAIN UpperCase THEN UpperCase[c] ELSE c

RECURSIVE Upper(_)
Upper(s) ==
    IF Len(s) = 0 THEN ""
    ELSE UpperChar(SubSeq(s, 1, 1)) \o Upper(SubSeq(s, 2, Len(s)))

(* s.replace(' ', '') *)
RECURSIVE RemoveSpaces(_)
RemoveSpaces(s) ==
    IF Len(s) = 0 THEN ""
    ELSE (IF SubSeq(s, 1, 1) = " " THEN "" ELSE SubSeq(s, 1, 1))
             \o RemoveSpaces(SubSeq(s, 2, Len(s)))

IsSpace(c) == c \in {" ", "\t", "\n", "\r"}

RECURSIVE LStrip(_)
LStrip(s) ==
    IF Len(s) = 0 THEN ""
    ELSE IF IsSpace(SubSeq(s, 1, 1)) THEN LStrip(SubSeq(s, 2, Len(s)))
    ELSE s

RECURSIVE RStrip(_)
RStrip(s) ==
    IF Len(s) = 0 THEN ""
    ELSE IF IsSpace(SubSeq(s, Len(s), Len(s))) THEN RStrip(SubSeq(s, 1, Len(s) - 1))
    ELSE s

Strip(s) == RStrip(LStrip(s))

StartsWith(s, p) == Len(s) >= Len(p) /\ SubSeq(s, 1, Len(p)) = p

(* dict.get(field, default) *)
Get(r, f, default) == IF f \in DOMAIN r THEN r[f] ELSE default

(* Python truthiness of an optional string *)
Truthy(v) == v # None /\ v # ""

-----------------------------------------------------------------------------
(* Configuration *)

user_email_attribute == "User Email"
assignee_attribute == "Assignee"
retirement_date_attribute == "Retirement Date"
asset_status_attribute == "Asset Status"

-----------------------------------------------------------------------------
(* Backend schema: the attribute definitions of the two object types *)

LaptopsType == "28"
DesktopsType == "30"

(* the Laptops type of a deployment that also records purchases, with the
   status attribute typed Status (FleetType) or typed Text (PlainType), and
   its Suppliers type *)
FleetType == "23"
PlainType == "24"
SuppliersType == "40"

(* an attribute definition as the backend describes it in full: defaultType
   is the name under 'defaultType' (None when the definition has none) *)
Def(id, name, type, defaultType, statusTypeValues) ==
    [id |-> id, name |-> name, type |-> type, defaultType |-> defaultType,
     statusTypeValues |-> statusTypeValues, statusValues |-> << >>]

(* attribute type codes of the Assets API: 0 default, 1 object reference,
   2 user, 7 status *)
TypeAttrs(t) ==
    IF t = FleetType THEN
        << Def(1, "Serial Number", 0, "Text", << >>),
           Def(2, "Model", 1, None, << >>),
           Def(3, "Asset Status", 7, "Status",
               << [id |-> 1, name |-> "In Use"], [id |-> 2, name |-> "Retired"] >>),
           Def(4, "Remote Asset", 0, "Boolean", << >>),
           Def(5, "Purchase Date", 0, "Date", << >>),
           Def(6, "Supplier", 1, None, << >>),
           Def(7, "Invoice Number", 0, "Text", << >>) >>
    ELSE IF t = PlainType THEN
        << Def(1, "Serial Number", 0, "Text", << >>),
           Def(2, "Model", 1, None, << >>),
           Def(3, "Asset Status", 0, "Text", << >>) >>
    ELSE IF t = SuppliersType THEN
        << Def(1, "Name", 0, "Text", << >>) >>
    ELSE
    IF t = LaptopsType THEN
        << [id |-> 1, name |-> "User Email", type |-> 0],
           [id |-> 2, name |-> "Assignee", type |-> 2],
           [id |-> 3, name |-> "Retirement Date", type |-> 0],
           [id |-> 4, name |-> "Asset Status", type |-> 7],
           [id |-> 5, name |-> "Serial Number", type |-> 0],
           [id |-> 6, name |-> "Model", type |-> 1] >>
    ELSE IF t = DesktopsType THEN
        << [id |-> 11, name |-> "Serial Number", type |-> 0],
           [id |-> 12, name |-> "Asset Status", type |-> 0],
           [id |-> 13, name |-> "Model", type |-> 1] >>
    ELSE << >>

(* Identity store: the accounts the user search can return *)
Users ==
    << [accountId |-> "acc-al", emailAddress |-> "Al@x", displayName |-> "Al A",
        accountType |-> "atlassian", active |-> TRUE],
       [accountId |-> "acc-bo1", emailAddress |-> "bo@x", displayName |-> "Bo 1",
        accountType |-> "customer", active |-> TRUE],
       [accountId |-> "acc-bo2", emailAddress |-> "bo@x", displayName |-> "Bo 2",
        accountType |-> "customer", active |-> TRUE],
       [accountId |-> "acc-cy1", emailAddress |-> "cy@x", displayName |-> "Cy 1",
        accountType |-> "customer", active |-> TRUE],
       [accountId |-> "acc-cy2", emailAddress |-> "cy@x", displayName |-> "Cy 2",
        accountType |-> "atlassian", active |-> TRUE],
       [accountId |-> "acc-di", emailAddress |-> "di@x", displayName |-> "Di D",
        accountType |-> "atlassian", active |-> FALSE] >>

NoUser == [accountId |-> None, emailAddress |-> None, displayName |-> None,
           accountType |-> None, active |-> FALSE]

(* one attribute value entry of a record *)
Val(hasValue, value, displayValue) ==
    [hasValue |-> hasValue, value |-> value, displayValue |-> displayValue]

(* a plain value: raw value and display value agree *)
Plain(v) == Val(TRUE, v, v)

(* one attribute instance of a record, for definition d *)
Attr(d, vals) == [id |-> d.id, name |-> d.name, type |-> d.type, vals |-> vals]

DefByName(t, name) ==
    LET ds == TypeAttrs(t)
        hits == {i \in 1..Len(ds) : ds[i].name = name}
    IN ds[CHOOSE i \in hits : \A j \in hits : i <= j]

-----------------------------------------------------------------------------
(* JiraAssetsClient: attribute extraction *)

RECURSIVE DisplayValues(_)
DisplayValues(vals) ==
    IF Len(vals) = 0 THEN << >>
    ELSE <<Head(vals).displayValue>> \o DisplayValues(Tail(vals))

(* The value extract_attribute_value returns, tagged by its Python shape:
   kind "none" (None), "scalar" (one display value, itself None when the
   entry carries no displayValue) or "list" (the display values in order). *)
NoneResult == [kind |-> "none", scalar |-> None, list |-> << >>]

(* an extraction that wraps a single value in a list as well *)
ExtractFrom_listed(vals) ==
    IF Len(vals) = 0 THEN NoneResult
    ELSE [kind |-> "list", scalar |-> None, list |-> DisplayValues(vals)]

ExtractFrom(vals) ==
    IF Len(vals) = 0 THEN NoneResult
    ELSE IF Len(vals) = 1
    THEN [kind |-> "scalar", scalar |-> vals[1].displayValue, list |-> << >>]
    ELSE [kind |-> "list", scalar |-> None, list |-> DisplayValues(vals)]

extract_attribute_value(object_data, attribute_name) ==
    LET attributes == object_data.attributes
        hits == {i \in 1..Len(attributes) : attributes[i].name = attribute_name}
    IN IF hits = {} THEN NoneResult
       ELSE ExtractFrom(attributes[CHOOSE i \in hits : \A j \in hits : i <= j].vals)

(* a Python value that is an int or a str, and str() of it *)
PyInt(n) == [py |-> "int", int |-> n, str |-> ""]

PyText(t) == [py |-> "str", int |-> 0, str |-> t]

(* a rendering that knows text only *)
Str_text(v) == v.str

Str(v) == IF v.py = "int" THEN ToString(v.int) ELSE v.str

extract_attribute_value_by_id(object_data, attribute_id) ==
    LET attributes == object_data.attributes
        hits == {i \in 1..Len(attributes) :
                     Str(PyInt(attributes[i].id)) = Str(attribute_id)}
    IN IF hits = {} THEN NoneResult
       ELSE ExtractFrom(attributes[CHOOSE i \in hits : \A j \in hits : i <= j].vals)

(* x is None *)
IsNone(x) == x.kind = "none" \/ (x.kind = "scalar" /\ x.scalar = None)

(* Python truthiness of an extracted value *)
IsTruthy(x) ==
    \/ x.kind = "list"
    \/ x.kind = "scalar" /\ Truthy(x.scalar)

(* repr() of a list element, str() of a list and of an extracted value *)
Repr(s) == IF s = None THEN "None" ELSE "'" \o s \o "'"

RECURSIVE JoinRepr(_)
JoinRepr(l) ==
    IF Len(l) = 0 THEN ""
    ELSE IF Len(l) = 1 THEN Repr(l[1])
    ELSE Repr(l[1]) \o ", " \o JoinRepr(Tail(l))

PyStr(x) ==
    IF x.kind = "list" THEN "[" \o JoinRepr(x.list) \o "]"
    ELSE IF x.scalar = None THEN "None"
    ELSE x.scalar

-----------------------------------------------------------------------------
(* AssetManager: the extractors of the two workflows *)

extract_user_email(asset_data) ==
    LET email == extract_attribute_value(asset_data, user_email_attribute)
    IN IF IsTruthy(email) THEN Lower(Strip(PyStr(email))) ELSE None

extract_current_assignee(asset_data) ==
    LET assignee == extract_attribute_value(asset_data, assignee_attribute)
    IN IF IsTruthy(assignee) THEN PyStr(assignee) ELSE None

extract_retirement_date(asset_data) ==
    LET retirement_date == extract_attribute_value(asset_data, retirement_date_attribute)
    IN IF IsTruthy(retirement_date) THEN PyStr(retirement_date) ELSE None

(* an extractor that folds the status to lower case *)
extract_asset_status_folded(asset_data) ==
    LET status == extract_attribute_value(asset_data, asset_status_attribute)
    IN IF IsTruthy(status) THEN Lower(PyStr(status)) ELSE None

extract_asset_status(asset_data) ==
    LET status == extract_attribute_value(asset_data, asset_status_attribute)
    IN IF IsTruthy(status) THEN PyStr(status) ELSE None

-----------------------------------------------------------------------------
(* Exceptions: a class name and a message; NoExc is "nothing raised" *)

Exc(cls, msg) == [cls |-> cls, msg |-> msg]
NoExc == Exc(None, None)

-----------------------------------------------------------------------------
(* JiraUserClient *)

(* the backend's user search: it may return partial matches of the query *)
UserSearch(query) ==
    SelectSeq(Users, LAMBDA u : StartsWith(Lower(u.emailAddress), Lower(query)))

CachedUsers(ucache, normalized_email) ==
    {c \in ucache : c.email = normalized_email}

(* search_user_by_email -> [exc, user, user_cache]; fault: the HTTP call fails *)
search_user_by_email(ucache, email, fault) ==
    ByValue([normalized_email \in {Strip(Lower(email))} |->
        LET cached == CachedUsers(ucache, normalized_email)
            found(u) ==
                [exc |-> NoExc, user |-> u,
                 user_cache |-> ucache \cup {[email |-> normalized_email, user |-> u]}]
            failed(cls, msg) ==
                [exc |-> Exc(cls, msg), user |-> NoUser, user_cache |-> ucache]
        IN IF cached # {}
           THEN [exc |-> NoExc, user |-> (CHOOSE c \in cached : TRUE).user,
                 user_cache |-> ucache]
           ELSE IF fault
           THEN failed("JiraUserAPIError",
                       "Network error while searching for user " \o email)
           ELSE ByValue([users \in {UserSearch(email)} |->
               IF Len(users) = 0
               THEN failed("UserNotFoundError", "No user found with email: " \o email)
               ELSE ByValue([exact_matches \in {SelectSeq(users, LAMBDA u :
                                Lower(u.emailAddress) = normalized_email)} |->
                   IF Len(exact_matches) = 0
                   THEN failed("UserNotFoundError",
                               "No user found with exact email match: " \o email)
                   ELSE IF Len(exact_matches) > 1
                   THEN ByValue([atlassian_users \in {SelectSeq(exact_matches, LAMBDA u :
                                    u.accountType = "atlassian")} |->
                            IF Len(atlassian_users) = 1
                            THEN found(atlassian_users[1])
                            ELSE failed("MultipleUsersFoundError",
                                        "Multiple users found for email " \o email
                                            \o ", cannot determine which to use")])
                   ELSE found(exact_matches[1])])])])

(* get_account_id_by_email -> [exc, account_id, user_cache] *)
get_account_id_by_email(ucache, email, fault) ==
    ByValue([r \in {search_user_by_email(ucache, email, fault)} |->
        IF r.exc # NoExc
        THEN [exc |-> r.exc, account_id |-> None, user_cache |-> r.user_cache]
        ELSE IF ~Truthy(r.user.accountId)
        THEN [exc |-> Exc("JiraUserAPIError",
                          "User found but no accountId available for " \o email),
              account_id |-> None, user_cache |-> r.user_cache]
        ELSE [exc |-> NoExc, account_id |-> r.user.accountId,
              user_cache |-> r.user_cache]])

(* a validation that lets every account id pass *)
validate_account_id_unchecked(account_id, fault) == TRUE

(* validate_account_id: a 404, an API error and a network error all give False *)
validate_account_id(account_id, fault) ==
    LET known == {i \in 1..Len(Users) : Users[i].accountId = account_id}
    IN IF fault THEN FALSE
       ELSE IF known = {} THEN FALSE
       ELSE Users[CHOOSE i \in known : TRUE].active

-----------------------------------------------------------------------------
(* The Assets backend (RecordStore) as the client sees it *)

NoObject == [id |-> None, objectKey |-> None, objectType |-> None, attributes |-> << >>]

HasKey(objs, key) == \E i \in 1..Len(objs) : objs[i].objectKey = key

ObjectByKey(objs, key) == objs[CHOOSE i \in 1..Len(objs) : objs[i].objectKey = key]

HasId(objs, id) == \E i \in 1..Len(objs) : objs[i].id = id

ObjectById(objs, id) == objs[CHOOSE i \in 1..Len(objs) : objs[i].id = id]

(* get_object_by_key -> [exc, data]; a 404 for an "object" context is
   AssetNotFoundError; fault: a network or server error *)
get_object_by_key(objs, object_key, fault) ==
    IF fault
    THEN [exc |-> Exc("JiraAssetsAPIError",
                      "Network error while retrieving object " \o object_key),
          data |-> NoObject]
    ELSE IF ~HasKey(objs, object_key)
    THEN [exc |-> Exc("AssetNotFoundError",
                      "Asset not found [get object " \o object_key \o "]"),
          data |-> NoObject]
    ELSE [exc |-> NoExc, data |-> ObjectByKey(objs, object_key)]

(* get_object_attributes -> [exc, attributes, attribute_cache] *)
get_object_attributes(acache, object_type_id, fault) ==
    IF object_type_id \in acache
    THEN [exc |-> NoExc, attributes |-> TypeAttrs(object_type_id), attribute_cache |-> acache]
    ELSE IF fault
    THEN [exc |-> Exc("JiraAssetsAPIError", "Network error while retrieving attributes"),
          attributes |-> << >>, attribute_cache |-> acache]
    ELSE [exc |-> NoExc, attributes |-> TypeAttrs(object_type_id),
          attribute_cache |-> acache \cup {object_type_id}]

(* create_attribute_update -> [exc, update, attribute_cache] *)
NoUpdate == [objectTypeAttributeId |-> 0, objectAttributeValues |-> << >>]

create_attribute_update(acache, attribute_name, value, object_type_id, fault) ==
    ByValue([got \in {get_object_attributes(acache, object_type_id, fault)} |->
        LET attributes == got.attributes
            hits == {i \in 1..Len(attributes) : attributes[i].name = attribute_name}
        IN IF got.exc # NoExc
           THEN [exc |-> got.exc, update |-> NoUpdate,
                 attribute_cache |-> got.attribute_cache]
           ELSE IF hits = {}
           THEN [exc |-> Exc("AttributeNotFoundError",
                             "Attribute '" \o attribute_name
                                 \o "' not found in object type " \o object_type_id),
                 update |-> NoUpdate, attribute_cache |-> got.attribute_cache]
           ELSE [exc |-> NoExc,
                 update |-> [objectTypeAttributeId |->
                                 attributes[CHOOSE i \in hits : \A j \in hits : i <= j].id,
                             objectAttributeValues |-> << [value |-> Str(value)] >>],
                 attribute_cache |-> got.attribute_cache]])

(* how the backend renders a stored raw value of an attribute of type t:
   a user-typed value is shown as the account id or as the user's display
   name, depending on the backend (display) *)
Render(t, value, display) ==
    LET known == {i \in 1..Len(Users) : Users[i].accountId = value}
    IN IF t = 2 /\ display = "name" /\ known # {}
       THEN Users[CHOOSE i \in known : TRUE].displayName
       ELSE value

RECURSIVE RenderValues(_, _, _)
RenderValues(t, values, display) ==
    IF Len(values) = 0 THEN << >>
    ELSE <<Val(TRUE, Head(values).value, Render(t, Head(values).value, display))>>
             \o RenderValues(t, Tail(values), display)

(* the record with one attribute update applied by the backend *)
ApplyUpdate(obj, upd, display) ==
    LET ds == TypeAttrs(obj.objectType)
        d == ds[CHOOSE i \in 1..Len(ds) : ds[i].id = upd.objectTypeAttributeId]
        vals == RenderValues(d.type, upd.objectAttributeValues, display)
        attributes == obj.attributes
        present == \E i \in 1..Len(attributes) : attributes[i].id = d.id
    IN [obj EXCEPT !.attributes =
            IF present
            THEN [i \in 1..Len(attributes) |->
                      IF attributes[i].id = d.id
                      THEN [attributes[i] EXCEPT !.vals = vals]
                      ELSE attributes[i]]
            ELSE Append(attributes, Attr(d, vals))]

(* a mutating call as the backend receives it: the operation, the id it names
   (a record id, or for a create the object type id), the number of attribute
   entries sent, and the record on whose behalf it is made *)
Call(op, id, n, src) == [op |-> op, id |-> id, n |-> n, src |-> src]

(* update_object -> [exc, data, objects, calls]; answer: "ok" the backend applies
   the update, "noop" it answers 200 but leaves the record as it was,
   "error" a network or server error *)
update_object(objs, object_id, attributes, answer, display) ==
    LET call == <<Call("update_object", object_id, Len(attributes), object_id)>>
        old == ObjectById(objs, object_id)
        new == ApplyUpdate(old, attributes[1], display)
    IN IF answer = "error"
       THEN [exc |-> Exc("JiraAssetsAPIError",
                         "Network error while updating object " \o object_id),
             data |-> NoObject, objects |-> objs, calls |-> call]
       ELSE IF ~HasId(objs, object_id)
       THEN [exc |-> Exc("AssetNotFoundError",
                         "Asset not found [update object " \o object_id \o "]"),
             data |-> NoObject, objects |-> objs, calls |-> call]
       ELSE IF answer = "noop"
       THEN [exc |-> NoExc, data |-> old, objects |-> objs, calls |-> call]
       ELSE [exc |-> NoExc, data |-> new,
             objects |-> [i \in 1..Len(objs) |->
                             IF objs[i].id = object_id THEN new ELSE objs[i]],
             calls |-> call]

-----------------------------------------------------------------------------
(* AssetManager.process_asset: the assignee workflow *)

(* what one workflow call leaves behind: the stores and caches after it, the
   mutating calls it issued, the exception it raised (NoExc: it returned),
   its result dict, and whether an injected fault was hit *)
Outcome(objs, ucache, acache, issued, raised, result, faulted) ==
    [objects |-> objs, user_cache |-> ucache, attribute_cache |-> acache,
     calls |-> issued, raised |-> raised, result |-> result, faulted |-> faulted]

AssigneeResult(object_key, dry_run) ==
    [object_key |-> object_key, success |-> FALSE, dry_run |-> dry_run,
     user_email |-> None, account_id |-> None, current_assignee |-> None,
     new_assignee |-> None, updated |-> FALSE, skipped |-> FALSE,
     skip_reason |-> None, error |-> None]

(* except clauses that wrap every exception alike *)
AssetRaised_wrapped(object_key, e) ==
    Exc("AssetUpdateError",
        "Unexpected error processing " \o object_key \o ": " \o e.msg)

(* the three except clauses of process_asset: what is raised to the caller *)
AssetRaised(object_key, e) ==
    IF e.cls = "AssetNotFoundError" THEN e
    ELSE IF e.cls \in {"ValidationError", "AssetUpdateError"} THEN e
    ELSE Exc("AssetUpdateError",
             "Unexpected error processing " \o object_key \o ": " \o e.msg)

AssetErrorMsg(object_key, e) ==
    IF e.cls = "AssetNotFoundError"
    THEN "Asset " \o object_key \o " not found: " \o e.msg
    ELSE IF e.cls \in {"ValidationError", "AssetUpdateError"}
    THEN "Failed to process " \o object_key \o ": " \o e.msg
    ELSE "Unexpected error processing " \o object_key \o ": " \o e.msg

process_asset(objs, ucache, acache, display, object_key, dry_run, f) ==
    LET result0 == AssigneeResult(object_key, dry_run)
        fail(o, u, a, issued, res, e, faulted) ==
            Outcome(o, u, a, issued, AssetRaised(object_key, e),
                    [res EXCEPT !.error = AssetErrorMsg(object_key, e)], faulted)
        skip(u, res, reason) ==
            Outcome(objs, u, acache, << >>, NoExc,
                    [res EXCEPT !.skipped = TRUE, !.skip_reason = reason], FALSE)
        answer == IF f = "update_error" THEN "error"
                ELSE IF f = "update_noop" THEN "noop" ELSE "ok"
    IN \* 1. fetch asset details
       ByValue([fetched \in {get_object_by_key(objs, object_key, f = "get_object")} |->
       IF fetched.exc # NoExc
       THEN fail(objs, ucache, acache, << >>, result0, fetched.exc, f = "get_object")
       ELSE
       \* 2. extract user email, 3. extract current assignee
       ByValue([asset_data \in {fetched.data} |->
       ByValue([user_email \in {extract_user_email(asset_data)} |->
       ByValue([current_assignee \in {extract_current_assignee(asset_data)} |->
       LET result2 == [result0 EXCEPT !.user_email = user_email]
           result3 == [result2 EXCEPT !.current_assignee = current_assignee]
       IN IF ~Truthy(user_email)
          THEN skip(ucache, result2, "No '" \o user_email_attribute \o "' attribute found")
          ELSE
          \* 4. look up the Jira user by email
          ByValue([looked \in {get_account_id_by_email(ucache, user_email, f = "search_user")} |->
          LET account_id == looked.account_id
              ucache4 == looked.user_cache
              result4 == [result3 EXCEPT !.account_id = account_id]
              result6 == [result4 EXCEPT !.new_assignee = account_id]
              result7 == [result6 EXCEPT !.updated = TRUE]
          IN IF looked.exc.cls \in {"UserNotFoundError", "MultipleUsersFoundError"}
             THEN skip(ucache4, result3, "User lookup failed: " \o looked.exc.msg)
             ELSE IF looked.exc # NoExc
             THEN fail(objs, ucache4, acache, << >>, result3, looked.exc, TRUE)
             \* 5. validate the account id
             ELSE IF ~validate_account_id(account_id, f = "validate")
             THEN Outcome(objs, ucache4, acache, << >>, NoExc,
                          [result4 EXCEPT !.skipped = TRUE,
                                          !.skip_reason = "AccountId " \o account_id
                                                              \o " is invalid or inactive"],
                          f = "validate")
             \* 6. check if an update is needed
             ELSE IF current_assignee = account_id
             THEN skip(ucache4, result4, "Assignee already set to " \o account_id)
             ELSE IF dry_run
             THEN Outcome(objs, ucache4, acache, << >>, NoExc,
                          [result6 EXCEPT !.success = TRUE], FALSE)
             ELSE
             \* 7. update the assignee
             ByValue([built \in {create_attribute_update(acache, assignee_attribute,
                                             PyText(account_id),
                                             asset_data.objectType, f = "get_attributes")} |->
             IF built.exc # NoExc
             THEN fail(objs, ucache4, built.attribute_cache, << >>, result6, built.exc,
                       f = "get_attributes")
             ELSE
             ByValue([put \in {update_object(objs, asset_data.id, <<built.update>>, answer, display)} |->
             IF put.exc # NoExc
             THEN fail(put.objects, ucache4, built.attribute_cache, put.calls, result6,
                       put.exc, TRUE)
             ELSE IF IsNone(extract_attribute_value(put.data, assignee_attribute))
             THEN fail(put.objects, ucache4, built.attribute_cache, put.calls, result7,
                       Exc("AssetUpdateError",
                           "Update verification failed: assignee is still None after update"),
                       f = "update_noop")
             ELSE Outcome(put.objects, ucache4, built.attribute_cache, put.calls, NoExc,
                          [result7 EXCEPT !.success = TRUE], f = "update_noop")])])])])])])])

-----------------------------------------------------------------------------
(* AssetManager.process_retirement: the retirement workflow *)

RetirementResult(object_key, dry_run) ==
    [object_key |-> object_key, success |-> FALSE, dry_run |-> dry_run,
     retirement_date |-> None, current_status |-> None, new_status |-> "Retired",
     updated |-> FALSE, skipped |-> FALSE, skip_reason |-> None, error |-> None]

RetirementRaised(object_key, e) ==
    IF e.cls = "AssetNotFoundError" THEN e
    ELSE IF e.cls \in {"ValidationError", "AssetUpdateError"} THEN e
    ELSE Exc("AssetUpdateError",
             "Unexpected error processing retirement for " \o object_key \o ": " \o e.msg)

RetirementErrorMsg(object_key, e) ==
    IF e.cls = "AssetNotFoundError"
    THEN "Asset " \o object_key \o " not found: " \o e.msg
    ELSE IF e.cls \in {"ValidationError", "AssetUpdateError"}
    THEN "Failed to process retirement for " \o object_key \o ": " \o e.msg
    ELSE "Unexpected error processing retirement for " \o object_key \o ": " \o e.msg

process_retirement(objs, ucache, acache, display, object_key, dry_run, f) ==
    LET result0 == RetirementResult(object_key, dry_run)
        fail(o, a, issued, res, e, faulted) ==
            Outcome(o, ucache, a, issued, RetirementRaised(object_key, e),
                    [res EXCEPT !.error = RetirementErrorMsg(object_key, e)], faulted)
        skip(res, reason) ==
            Outcome(objs, ucache, acache, << >>, NoExc,
                    [res EXCEPT !.skipped = TRUE, !.skip_reason = reason], FALSE)
        answer == IF f = "update_error" THEN "error"
                ELSE IF f = "update_noop" THEN "noop" ELSE "ok"
    IN \* 1. fetch asset details
       ByValue([fetched \in {get_object_by_key(objs, object_key, f = "get_object")} |->
       IF fetched.exc # NoExc
       THEN fail(objs, acache, << >>, result0, fetched.exc, f = "get_object")
       ELSE
       \* 2. extract retirement date, 3. extract current status
       ByValue([asset_data \in {fetched.data} |->
       ByValue([retirement_date \in {extract_retirement_date(asset_data)} |->
       ByValue([current_status \in {extract_asset_status(asset_data)} |->
       LET result2 == [result0 EXCEPT !.retirement_date = retirement_date]
           result3 == [result2 EXCEPT !.current_status = current_status]
           result5 == [result3 EXCEPT !.updated = TRUE]
       IN IF ~Truthy(retirement_date)
          THEN skip(result2, "No '" \o retirement_date_attribute \o "' attribute found")
          \* 4. check if already retired
          ELSE IF current_status = "Retired"
          THEN skip(result3, "Asset already has status 'Retired'")
          ELSE IF dry_run
          THEN Outcome(objs, ucache, acache, << >>, NoExc,
                       [result3 EXCEPT !.success = TRUE], FALSE)
          ELSE
          \* 5. update the status
          ByValue([built \in {create_attribute_update(acache, asset_status_attribute,
                                          PyText("Retired"),
                                          asset_data.objectType, f = "get_attributes")} |->
          IF built.exc # NoExc
          THEN fail(objs, built.attribute_cache, << >>, result3, built.exc,
                    f = "get_attributes")
          ELSE
          ByValue([put \in {update_object(objs, asset_data.id, <<built.update>>, answer, display)} |->
          IF put.exc # NoExc
          THEN fail(put.objects, built.attribute_cache, put.calls, result3, put.exc, TRUE)
          ELSE
          ByValue([updated_status \in {extract_attribute_value(put.data, asset_status_attribute)} |->
          IF ~(updated_status.kind = "scalar" /\ updated_status.scalar = "Retired")
          THEN fail(put.objects, built.attribute_cache, put.calls, result5,
                    Exc("AssetUpdateError",
                        "Update verification failed: status is '" \o PyStr(updated_status)
                            \o "' instead of 'Retired'"),
                    f = "update_noop")
          ELSE Outcome(put.objects, ucache, built.attribute_cache, put.calls, NoExc,
                       [result5 EXCEPT !.success = TRUE], f = "update_noop")])])])])])])])

-----------------------------------------------------------------------------
(* Bulk discovery and the bulk runs *)

DefaultLimit == 100

Min(a, b) == IF a <= b THEN a ELSE b

(* find_objects_by_aql against a backend that honours startAt / maxResults:
   matching is the query's whole result set, in backend order *)
find_objects_by_aql(matching, start, limit) ==
    SubSeq(matching, start + 1, Min(start + limit, Len(matching)))

(* a loop that asks for the first page only *)
FetchLoop_single(matching, start, limit, all_objects, starts) ==
    [all_objects |-> all_objects \o find_objects_by_aql(matching, start, limit),
     starts |-> Append(starts, start)]

(* the while-loop shared by the discovery functions -> [all_objects, starts];
   starts are the offsets it asked for, in the order of the queries *)
RECURSIVE FetchLoop(_, _, _, _, _)
FetchLoop(matching, start, limit, all_objects, starts) ==
    ByValue([page \in {find_objects_by_aql(matching, start, limit)} |->
       IF Len(page) = 0
       THEN [all_objects |-> all_objects, starts |-> Append(starts, start)]
       ELSE IF Len(page) < limit
       THEN [all_objects |-> all_objects \o page, starts |-> Append(starts, start)]
       ELSE FetchLoop(matching, start + limit, limit, all_objects \o page,
                      Append(starts, start))])

(* the records the loop collects *)
FetchAllPages(matching, start, limit, all_objects) ==
    FetchLoop(matching, start, limit, all_objects, << >>).all_objects

HasValues(obj, name) ==
    \E i \in 1..Len(obj.attributes) :
        obj.attributes[i].name = name /\ Len(obj.attributes[i].vals) > 0

(* objectType = "Laptops" *)
get_hardware_laptops_objects(objs, limit) ==
    FetchAllPages(SelectSeq(objs, LAMBDA o : o.objectType = LaptopsType),
                  0, limit, << >>)

(* objectType = "Laptops" AND "Retirement Date" IS NOT EMPTY *)
get_assets_pending_retirement(objs, limit) ==
    FetchAllPages(SelectSeq(objs, LAMBDA o : o.objectType = LaptopsType
                                        /\ HasValues(o, retirement_date_attribute)),
                  0, limit, << >>)

(* filter_objects_for_processing: every candidate is fetched again by key; a
   fetch that raises is logged and the candidate is left out *)
RECURSIVE filter_objects_for_processing(_, _, _)
filter_objects_for_processing(objs, candidates, fault_key) ==
    IF Len(candidates) = 0 THEN << >>
    ELSE LET object_key == Head(candidates).objectKey
         IN ByValue([fetched \in {get_object_by_key(objs, object_key, object_key = fault_key)} |->
                (IF fetched.exc # NoExc THEN << >>
                 ELSE IF ~Truthy(extract_user_email(fetched.data)) THEN << >>
                 ELSE IF Truthy(extract_current_assignee(fetched.data)) THEN << >>
                 ELSE <<fetched.data>>)
                    \o filter_objects_for_processing(objs, Tail(candidates), fault_key)])

RECURSIVE filter_assets_for_retirement(_, _, _)
filter_assets_for_retirement(objs, candidates, fault_key) ==
    IF Len(candidates) = 0 THEN << >>
    ELSE LET object_key == Head(candidates).objectKey
         IN ByValue([fetched \in {get_object_by_key(objs, object_key, object_key = fault_key)} |->
                (IF fetched.exc # NoExc THEN << >>
                 ELSE IF ~Truthy(extract_retirement_date(fetched.data)) THEN << >>
                 ELSE IF extract_asset_status(fetched.data) = "Retired" THEN << >>
                 ELSE <<fetched.data>>)
                    \o filter_assets_for_retirement(objs, Tail(candidates), fault_key)])

(* a dict that records the raised exception with an empty text *)
ErrorResult_blank(object_key, e, dry_run) ==
    [object_key |-> object_key, success |-> FALSE, error |-> "", dry_run |-> dry_run]

(* the dict a bulk loop records for a record whose processing raised *)
ErrorResult(object_key, e, dry_run) ==
    [object_key |-> object_key, success |-> FALSE, error |-> e.msg, dry_run |-> dry_run]

(* one pass of a bulk loop over the records to process; st carries the stores,
   caches, issued calls and results so far; the fault f hits record fault_key *)
BulkStep(st, out, object_key, dry_run) ==
    [objects |-> out.objects, user_cache |-> out.user_cache,
     attribute_cache |-> out.attribute_cache, calls |-> st.calls \o out.calls,
     results |-> Append(st.results,
                        IF out.raised = NoExc THEN out.result
                        ELSE ErrorResult(object_key, out.raised, dry_run)),
     faulted |-> st.faulted \/ out.faulted]

RECURSIVE BulkAssetsLoop(_, _, _, _, _, _)
BulkAssetsLoop(st, todo, display, dry_run, fault_key, f) ==
    IF Len(todo) = 0 THEN st
    ELSE LET object_key == Head(todo).objectKey
         IN ByValue([out \in {process_asset(st.objects, st.user_cache, st.attribute_cache, display,
                                  object_key, dry_run,
                                  IF object_key = fault_key THEN f ELSE "none")} |->
            ByValue([next \in {BulkStep(st, out, object_key, dry_run)} |->
                BulkAssetsLoop(next, Tail(todo), display, dry_run, fault_key, f)])])

RECURSIVE BulkRetirementsLoop(_, _, _, _, _, _)
BulkRetirementsLoop(st, todo, display, dry_run, fault_key, f) ==
    IF Len(todo) = 0 THEN st
    ELSE LET object_key == Head(todo).objectKey
         IN ByValue([out \in {process_retirement(st.objects, st.user_cache, st.attribute_cache,
                                       display, object_key, dry_run,
                                       IF object_key = fault_key THEN f ELSE "none")} |->
            ByValue([next \in {BulkStep(st, out, object_key, dry_run)} |->
                BulkRetirementsLoop(next, Tail(todo), display, dry_run, fault_key, f)])])

BulkStart(objs, ucache, acache) ==
    [objects |-> objs, user_cache |-> ucache, attribute_cache |-> acache,
     calls |-> << >>, results |-> << >>, faulted |-> FALSE]

(* process_bulk_assets; bf names the one injected fault of the run: its stage
   ("none", "discover", "filter" or "process"), the record it hits and, for
   the process stage, the failing call.  Any exception of the discovery is
   caught by the outer handlers, which return the empty list. *)
process_bulk_assets(objs, ucache, acache, display, dry_run, bf) ==
    LET start == BulkStart(objs, ucache, acache)
    IN IF bf.stage = "discover" THEN [start EXCEPT !.faulted = TRUE]
       ELSE ByValue([all_objects \in {get_hardware_laptops_objects(objs, DefaultLimit)} |->
            ByValue([objects_to_process \in {filter_objects_for_processing(
                        objs, all_objects, IF bf.stage = "filter" THEN bf.key ELSE None)} |->
                BulkAssetsLoop(
                    [start EXCEPT !.faulted =
                        bf.stage = "filter"
                            /\ \E i \in 1..Len(all_objects) :
                                   all_objects[i].objectKey = bf.key],
                    objects_to_process, display, dry_run,
                    IF bf.stage = "process" THEN bf.key ELSE None, bf.f)])])

process_asset_retirements(objs, ucache, acache, display, dry_run, bf) ==
    LET start == BulkStart(objs, ucache, acache)
    IN IF bf.stage = "discover" THEN [start EXCEPT !.faulted = TRUE]
       ELSE ByValue([all_objects \in {get_assets_pending_retirement(objs, DefaultLimit)} |->
            ByValue([objects_to_retire \in {filter_assets_for_retirement(
                        objs, all_objects, IF bf.stage = "filter" THEN bf.key ELSE None)} |->
                BulkRetirementsLoop(
                    [start EXCEPT !.faulted =
                        bf.stage = "filter"
                            /\ \E i \in 1..Len(all_objects) :
                                   all_objects[i].objectKey = bf.key],
                    objects_to_retire, display, dry_run,
                    IF bf.stage = "process" THEN bf.key ELSE None, bf.f)])])

-----------------------------------------------------------------------------
(* JiraAssetsClient: schema mapping and migration *)

(* target_attr_map = {attr['name']: attr for attr in target_attributes}:
   of two definitions with one name the later one stays *)
TargetAttrMap(target_attributes, name) ==
    LET hits == {i \in 1..Len(target_attributes) : target_attributes[i].name = name}
    IN target_attributes[CHOOSE i \in hits : \A j \in hits : i >= j]

(* a lookup that folds the source name to lower case first *)
InTargetAttrMap_folded(target_attributes, name) ==
    \E i \in 1..Len(target_attributes) : target_attributes[i].name = Lower(name)

InTargetAttrMap(target_attributes, name) ==
    \E i \in 1..Len(target_attributes) : target_attributes[i].name = name

(* the values copied into a mapped attribute: those that carry a raw value *)
RECURSIVE CopyValues(_)
CopyValues(attr_values) ==
    IF Len(attr_values) = 0 THEN << >>
    ELSE (IF Head(attr_values).hasValue
          THEN << [value |-> Head(attr_values).value] >> ELSE << >>)
             \o CopyValues(Tail(attr_values))

TypeMismatch(attr_name, source_type, target_type) ==
    "Attribute '" \o attr_name \o "' type mismatch: " \o ToString(source_type)
        \o " -> " \o ToString(target_type)

(* the loop of map_attributes_between_types over the record's attribute
   instances -> [mapped, warnings, unmapped] *)
RECURSIVE MapLoop(_, _, _)
MapLoop(source_object_attributes, target_attributes, acc) ==
    IF Len(source_object_attributes) = 0 THEN acc
    ELSE LET source_attr == Head(source_object_attributes)
             attr_name == source_attr.name
             attr_values == source_attr.vals
             target_attr_def == TargetAttrMap(target_attributes, attr_name)
             copied == CopyValues(attr_values)
             warned ==
                 IF source_attr.type # target_attr_def.type
                 THEN Append(acc.warnings,
                             TypeMismatch(attr_name, source_attr.type, target_attr_def.type))
                 ELSE acc.warnings
             next ==
                 IF ~Truthy(attr_name) \/ Len(attr_values) = 0 THEN acc
                 ELSE IF InTargetAttrMap(target_attributes, attr_name)
                 THEN [acc EXCEPT
                          !.warnings = warned,
                          !.mapped =
                              IF Len(copied) > 0
                              THEN Append(acc.mapped,
                                          [objectTypeAttributeId |-> target_attr_def.id,
                                           objectAttributeValues |-> copied])
                              ELSE acc.mapped]
                 ELSE [acc EXCEPT !.unmapped = Append(acc.unmapped, attr_name)]
         IN ByValue([after \in {next} |->
                MapLoop(Tail(source_object_attributes), target_attributes, after)])

NoMapping == [mapped |-> << >>, warnings |-> << >>, unmapped |-> << >>]

(* map_attributes_between_types -> [exc, mapped, warnings, unmapped, attribute_cache] *)
map_attributes_between_types(acache, source_object_data, target_object_type_id, fault) ==
    ByValue([got \in {get_object_attributes(acache, target_object_type_id, fault)} |->
        IF got.exc # NoExc
        THEN [exc |-> got.exc, mapped |-> << >>, warnings |-> << >>, unmapped |-> << >>,
              attribute_cache |-> got.attribute_cache]
        ELSE ByValue([m \in {MapLoop(source_object_data.attributes, got.attributes, NoMapping)} |->
                 [exc |-> NoExc, mapped |-> m.mapped, warnings |-> m.warnings,
                  unmapped |-> m.unmapped, attribute_cache |-> got.attribute_cache]])])

(* a delete that reports success whatever the backend answered *)
delete_object_lenient(objs, object_id, fault) ==
    [exc |-> NoExc,
     objects |-> IF fault THEN objs ELSE SelectSeq(objs, LAMBDA o : o.id # object_id),
     calls |-> <<Call("delete_object", object_id, 0, object_id)>>]

(* a delete put off until the new record exists: nothing is deleted here *)
delete_object_deferred(objs, object_id, fault) ==
    [exc |-> NoExc, objects |-> objs, calls |-> << >>]

(* delete_object -> [exc, objects, calls] *)
delete_object(objs, object_id, fault) ==
    LET call == <<Call("delete_object", object_id, 0, object_id)>>
    IN IF fault
       THEN [exc |-> Exc("JiraAssetsAPIError",
                         "Network error while deleting object " \o object_id),
             objects |-> objs, calls |-> call]
       ELSE IF ~HasId(objs, object_id)
       THEN [exc |-> Exc("AssetNotFoundError",
                         "Asset not found [delete object " \o object_id \o "]"),
             objects |-> objs, calls |-> call]
       ELSE [exc |-> NoExc,
             objects |-> SelectSeq(objs, LAMBDA o : o.id # object_id),
             calls |-> call]

(* the record the backend stores for a create: one attribute instance per
   entry sent, rendered by the backend *)
RECURSIVE CreatedAttributes(_, _, _)
CreatedAttributes(object_type_id, attributes, display) ==
    IF Len(attributes) = 0 THEN << >>
    ELSE LET ds == TypeAttrs(object_type_id)
             d == ds[CHOOSE i \in 1..Len(ds) : ds[i].id = Head(attributes).objectTypeAttributeId]
         IN <<Attr(d, RenderValues(d.type, Head(attributes).objectAttributeValues, display))>>
                \o CreatedAttributes(object_type_id, Tail(attributes), display)

(* the keys and ids the backend hands out: one numbering per object type,
   the two Laptops types of the purchasing deployment sharing theirs *)
KeySeries(t) ==
    IF t \in {FleetType, PlainType} THEN [key |-> "NEW-", id |-> "230", of |-> FleetType]
    ELSE IF t = SuppliersType THEN [key |-> "SUP-", id |-> "400", of |-> t]
    ELSE [key |-> "DT-", id |-> "200", of |-> t]

(* create_object -> [exc, data, objects, calls]; src: the record the create is
   made for (bookkeeping of the model, not sent) *)
create_object(objs, object_type_id, attributes, fault, display, src) ==
    LET call == <<Call("create_object", object_type_id, Len(attributes), src)>>
        n == ToString(Len(SelectSeq(objs, LAMBDA o :
                              KeySeries(o.objectType) = KeySeries(object_type_id))) + 1)
        new == [id |-> KeySeries(object_type_id).id \o n,
                objectKey |-> KeySeries(object_type_id).key \o n,
                objectType |-> object_type_id,
                attributes |-> CreatedAttributes(object_type_id, attributes, display)]
    IN IF fault
       THEN [exc |-> Exc("JiraAssetsAPIError", "Network error while creating object"),
             data |-> NoObject, objects |-> objs, calls |-> call]
       ELSE [exc |-> NoExc, data |-> new, objects |-> Append(objs, new), calls |-> call]

MigrationResult(source_object) ==
    [source_object_key |-> source_object.objectKey,
     source_object_id |-> source_object.id,
     new_object_key |-> None, new_object_id |-> None, mapped_attributes |-> 0,
     warnings |-> << >>, unmapped_attributes |-> << >>, original_deleted |-> FALSE,
     success |-> FALSE, error |-> None]

(* migrate_object_to_type -> [exc, migration_result, objects, attribute_cache,
   calls, faulted]; f names the call that fails *)
migrate_object_to_type(objs, acache, display, source_object, target_object_type_id, delete_original, f) ==
    LET source_object_key == source_object.objectKey
        source_object_id == source_object.id
        result0 == MigrationResult(source_object)
        wrapped(e) ==
            Exc("JiraAssetsAPIError",
                "Migration failed for " \o source_object_key \o ": " \o e.msg)
        fail(o, a, issued, res, e, faulted) ==
            [exc |-> wrapped(e),
             migration_result |-> [res EXCEPT !.error = wrapped(e).msg],
             objects |-> o, attribute_cache |-> a, calls |-> issued, faulted |-> faulted]
        deleting == delete_original /\ Truthy(source_object_id)
    IN \* source object attributes with their definitions
       ByValue([got \in {get_object_attributes(acache, source_object.objectType,
                                     f = "get_attributes")} |->
       IF got.exc # NoExc
       THEN fail(objs, got.attribute_cache, << >>, result0, got.exc, TRUE)
       ELSE
       \* map attributes to the target type
       ByValue([map \in {map_attributes_between_types(got.attribute_cache, source_object,
                                            target_object_type_id, f = "get_attributes")} |->
       LET result1 == [result0 EXCEPT !.mapped_attributes = Len(map.mapped),
                                      !.warnings = map.warnings,
                                      !.unmapped_attributes = map.unmapped]
           result2 == IF deleting THEN [result1 EXCEPT !.original_deleted = TRUE]
                      ELSE result1
       IN IF map.exc # NoExc
          THEN fail(objs, map.attribute_cache, << >>, result0, map.exc, TRUE)
          ELSE
          \* delete the original object first if requested
          ByValue([del \in {IF deleting THEN delete_object(objs, source_object_id, f = "delete")
                  ELSE [exc |-> NoExc, objects |-> objs, calls |-> << >>]} |->
          IF del.exc # NoExc
          THEN fail(del.objects, map.attribute_cache, del.calls, result1,
                    Exc("JiraAssetsAPIError",
                        "Failed to delete original object " \o source_object_key
                            \o ": " \o del.exc.msg),
                    f = "delete")
          ELSE
          \* create the new object in the target type
          ByValue([made \in {create_object(del.objects, target_object_type_id, map.mapped,
                                f = "create", display, source_object_id)} |->
          IF made.exc # NoExc
          THEN fail(made.objects, map.attribute_cache, del.calls \o made.calls, result2,
                    made.exc, f = "create")
          ELSE [exc |-> NoExc,
                migration_result |->
                    [result2 EXCEPT !.new_object_key = made.data.objectKey,
                                    !.new_object_id = made.data.id,
                                    !.success = TRUE],
                objects |-> made.objects, attribute_cache |-> map.attribute_cache,
                calls |-> del.calls \o made.calls, faulted |-> FALSE]])])])])

(* the AQL search "Serial Number" = "<serial>": no object type filter *)
serial_number_attribute == "Serial Number"

SerialSearchLimit == 10

HasSerial(obj, serial_number) ==
    \E i \in 1..Len(obj.attributes) :
        /\ obj.attributes[i].name = serial_number_attribute
        /\ \E j \in 1..Len(obj.attributes[i].vals) :
               obj.attributes[i].vals[j].value = serial_number

(* the loop of find_object_by_serial_number: each hit is fetched again by key
   and kept when its object type is the one asked for; a fetch that raises is
   logged and the hit is left out.  faulty: the fetch of the first hit fails *)
RECURSIVE MatchingObjects(_, _, _, _)
MatchingObjects(objs, hits, object_type_id, faulty) ==
    IF Len(hits) = 0 THEN << >>
    ELSE ByValue([got \in {get_object_by_key(objs, Head(hits).objectKey, faulty)} |->
             (IF got.exc = NoExc /\ got.data.objectType = object_type_id
              THEN <<got.data>> ELSE << >>)
                 \o MatchingObjects(objs, Tail(hits), object_type_id, FALSE)])

(* find_object_by_serial_number -> [exc, data, faulted] *)
find_object_by_serial_number(objs, serial_number, object_type_id, f) ==
    IF f = "find"
    THEN [exc |-> Exc("JiraAssetsAPIError", "Network error while searching objects"),
          data |-> NoObject, faulted |-> TRUE]
    ELSE ByValue([hits \in {find_objects_by_aql(
                     SelectSeq(objs, LAMBDA o : HasSerial(o, serial_number)),
                     0, SerialSearchLimit)} |->
         IF Len(hits) = 0
         THEN [exc |-> Exc("AssetNotFoundError",
                           "No asset found with serial number '" \o serial_number \o "'"),
               data |-> NoObject, faulted |-> FALSE]
         ELSE ByValue([matching_objects \in {MatchingObjects(objs, hits, object_type_id, f = "get_object")} |->
              IF Len(matching_objects) = 0
              THEN [exc |-> Exc("AssetNotFoundError",
                                "No asset found with serial number '" \o serial_number
                                    \o "' in object type " \o object_type_id),
                    data |-> NoObject, faulted |-> f = "get_object"]
              ELSE [exc |-> NoExc, data |-> matching_objects[1],
                    faulted |-> f = "get_object"]])])

-----------------------------------------------------------------------------
(* AssetManager: the migration workflow *)

(* the serial numbers of the file, as parse_serial_numbers_from_csv reads them:
   stripped, empty cells left out, upper-cased with spaces removed *)
RECURSIVE NormalizedSerials(_)
NormalizedSerials(rows) ==
    IF Len(rows) = 0 THEN << >>
    ELSE ByValue([serial_number \in {Strip(Head(rows))} |->
             (IF serial_number # ""
              THEN <<RemoveSpaces(Upper(serial_number))>> ELSE << >>)
                 \o NormalizedSerials(Tail(rows))])

(* list(dict.fromkeys(serial_numbers)) *)
RECURSIVE Unique(_, _)
Unique(l, seen) ==
    IF Len(l) = 0 THEN seen
    ELSE Unique(Tail(l),
                IF \E i \in 1..Len(seen) : seen[i] = Head(l) THEN seen
                ELSE Append(seen, Head(l)))

(* parse_serial_numbers_from_csv -> [exc, serial_numbers]; the file is its
   existence, its header and the SERIAL_NUMBER cell of each row *)
parse_serial_numbers_from_csv(csv) ==
    IF ~csv.exists
    THEN [exc |-> Exc("FileNotFoundError", "CSV file not found"),
          serial_numbers |-> << >>]
    ELSE IF ~(\E i \in 1..Len(csv.fieldnames) : csv.fieldnames[i] = "SERIAL_NUMBER")
    THEN [exc |-> Exc("ValidationError",
                      "CSV file must contain 'SERIAL_NUMBER' column. "),
          serial_numbers |-> << >>]
    ELSE ByValue([serial_numbers \in {NormalizedSerials(csv.rows)} |->
         IF Len(serial_numbers) = 0
         THEN [exc |-> Exc("ValidationError", "No valid serial numbers found in CSV file"),
               serial_numbers |-> << >>]
         ELSE [exc |-> NoExc, serial_numbers |-> Unique(serial_numbers, << >>)]])

(* the object types of the schema, by id *)
ObjectTypeName(t) ==
    CASE t = LaptopsType -> "Laptops" [] t = DesktopsType -> "Desktops" [] OTHER -> None

(* get_object_type_by_id -> [exc, name] *)
get_object_type_by_id(object_type_id) ==
    IF ObjectTypeName(object_type_id) = None
    THEN [exc |-> Exc("ObjectTypeNotFoundError",
                      "Object type with ID " \o object_type_id \o " not found in any schema"),
          name |-> None]
    ELSE [exc |-> NoExc, name |-> ObjectTypeName(object_type_id)]

(* a result that takes original_deleted from the delete_original switch alone *)
SerialResult_switch(serial_number, dry_run, delete_original) ==
    [serial_number |-> serial_number, source_object_key |-> None,
     source_object_id |-> None, new_object_key |-> None, new_object_id |-> None,
     mapped_attributes |-> 0, warnings |-> << >>, unmapped_attributes |-> << >>,
     original_deleted |-> delete_original,
     success |-> FALSE, skipped |-> FALSE, skip_reason |-> None, error |-> None,
     dry_run |-> dry_run]

SerialResult(serial_number, dry_run, delete_original) ==
    [serial_number |-> serial_number, source_object_key |-> None,
     source_object_id |-> None, new_object_key |-> None, new_object_id |-> None,
     mapped_attributes |-> 0, warnings |-> << >>, unmapped_attributes |-> << >>,
     original_deleted |-> IF ~dry_run THEN delete_original ELSE FALSE,
     success |-> FALSE, skipped |-> FALSE, skip_reason |-> None, error |-> None,
     dry_run |-> dry_run]

SerialError(result, serial_number, e) ==
    [result EXCEPT !.error = "Failed to process asset with serial number '"
                                 \o serial_number \o "': " \o e.msg]

(* one pass of the loop of process_asset_migration -> the run so far with this
   serial number's result appended *)
SerialStep(st, serial_number, source_object_type_id, target_object_type_id, source_type_name, display, dry_run, delete_original, f) ==
    LET result == SerialResult(serial_number, dry_run, delete_original)
        done(o, a, issued, res, faulted) ==
            [st EXCEPT !.objects = o, !.attribute_cache = a,
                       !.calls = st.calls \o issued,
                       !.results = Append(st.results, res),
                       !.faulted = st.faulted \/ faulted]
    IN \* find the asset by serial number in the source object type
       ByValue([found \in {find_object_by_serial_number(st.objects, serial_number,
                                            source_object_type_id, f)} |->
       LET source_asset == found.data
           result1 == [result EXCEPT !.source_object_key = source_asset.objectKey,
                                     !.source_object_id = source_asset.id]
       IN IF found.exc # NoExc /\ found.exc.cls = "AssetNotFoundError"
          THEN done(st.objects, st.attribute_cache, << >>,
                    [result EXCEPT !.skipped = TRUE,
                                   !.skip_reason =
                                       "Asset with serial number '" \o serial_number
                                           \o "' not found in source object type "
                                           \o source_type_name],
                    found.faulted)
          ELSE IF found.exc # NoExc
          THEN done(st.objects, st.attribute_cache, << >>,
                    SerialError(result, serial_number, found.exc), found.faulted)
          ELSE IF ~dry_run
          THEN \* perform the actual migration
               ByValue([mig \in {migrate_object_to_type(st.objects, st.attribute_cache, display,
                                              source_asset, target_object_type_id,
                                              delete_original, f)} |->
               IF mig.exc # NoExc
               THEN done(mig.objects, mig.attribute_cache, mig.calls,
                         SerialError(result1, serial_number, mig.exc),
                         found.faulted \/ mig.faulted)
               ELSE done(mig.objects, mig.attribute_cache, mig.calls,
                         [result1 EXCEPT
                             !.new_object_key = mig.migration_result.new_object_key,
                             !.new_object_id = mig.migration_result.new_object_id,
                             !.mapped_attributes = mig.migration_result.mapped_attributes,
                             !.warnings = mig.migration_result.warnings,
                             !.unmapped_attributes =
                                 mig.migration_result.unmapped_attributes,
                             !.original_deleted = mig.migration_result.original_deleted,
                             !.success = TRUE],
                         found.faulted)])
          ELSE \* dry run: just validate the mapping
               ByValue([got \in {get_object_attributes(st.attribute_cache, source_object_type_id,
                                             f = "get_attributes")} |->
               IF got.exc # NoExc
               THEN done(st.objects, got.attribute_cache, << >>,
                         SerialError(result1, serial_number, got.exc), TRUE)
               ELSE
               ByValue([map \in {map_attributes_between_types(got.attribute_cache, source_asset,
                                                    target_object_type_id,
                                                    f = "get_attributes")} |->
               IF map.exc # NoExc
               THEN done(st.objects, map.attribute_cache, << >>,
                         SerialError(result1, serial_number, map.exc), TRUE)
               ELSE done(st.objects, map.attribute_cache, << >>,
                         [result1 EXCEPT !.mapped_attributes = Len(map.mapped),
                                         !.warnings = map.warnings,
                                         !.unmapped_attributes = map.unmapped,
                                         !.success = TRUE],
                         found.faulted)])])])

RECURSIVE SerialLoop(_, _, _, _, _, _, _, _, _)
SerialLoop(st, serial_numbers, source_object_type_id, target_object_type_id, source_type_name, display, dry_run, delete_original, mf) ==
    IF Len(serial_numbers) = 0 THEN st
    ELSE ByValue([next \in {SerialStep(st, Head(serial_numbers), source_object_type_id,
                            target_object_type_id, source_type_name, display,
                            dry_run, delete_original,
                            IF Head(serial_numbers) = mf.key THEN mf.f ELSE "none")} |->
             SerialLoop(next, Tail(serial_numbers), source_object_type_id,
                        target_object_type_id, source_type_name, display, dry_run,
                        delete_original, mf)])

(* process_asset_migration -> [raised, objects, attribute_cache, calls, results,
   faulted]; mf names the one injected fault of the run: the serial number it
   hits and the failing call *)
process_asset_migration(objs, acache, display, csv, source_object_type_id, target_object_type_id, dry_run, delete_original, mf) ==
    LET start == [raised |-> NoExc, objects |-> objs, attribute_cache |-> acache,
                  calls |-> << >>, results |-> << >>, faulted |-> FALSE]
    IN ByValue([source_obj_type \in {get_object_type_by_id(source_object_type_id)} |->
       ByValue([target_obj_type \in {get_object_type_by_id(target_object_type_id)} |->
       IF source_obj_type.exc # NoExc
       THEN [start EXCEPT !.raised =
                Exc("ValidationError", "Invalid object type: " \o source_obj_type.exc.msg)]
       ELSE IF target_obj_type.exc # NoExc
       THEN [start EXCEPT !.raised =
                Exc("ValidationError", "Invalid object type: " \o target_obj_type.exc.msg)]
       ELSE ByValue([parsed \in {parse_serial_numbers_from_csv(csv)} |->
            IF parsed.exc # NoExc
            THEN [start EXCEPT !.raised = parsed.exc]
            ELSE SerialLoop(start, parsed.serial_numbers, source_object_type_id,
                            target_object_type_id, source_obj_type.name, display,
                            dry_run, delete_original, mf)])])])

-----------------------------------------------------------------------------
(* Records the model starts from *)

Laptop(n, attributes) ==
    [id |-> "100" \o n, objectKey |-> "HW-" \o n, objectType |-> LaptopsType,
     attributes |-> attributes]

One(name, vals) == << Attr(DefByName(LaptopsType, name), vals) >>

(* the User Email attribute of a record: absent, unset, or set *)
EmailChoices ==
    { << >>,
      One("User Email", << >>),
      One("User Email", << Plain(" Al@X ") >>),
      One("User Email", << Plain("bo@x") >>),
      One("User Email", << Plain("di@x") >>),
      One("User Email", << Plain("zz@x") >>),
      One("User Email", << Plain("  ") >>) }

(* the Assignee attribute: absent, or an account as the backend shows it *)
AssigneeChoices(display) ==
    { << >>,
      One("Assignee", << Val(TRUE, "acc-al", Render(2, "acc-al", display)) >>) }

RetirementDateChoices ==
    { << >>, One("Retirement Date", << Plain("2024-01-01") >>) }

StatusChoices ==
    { << >>,
      One("Asset Status", << Plain("In Use") >>),
      One("Asset Status", << Plain("Retired") >>),
      One("Asset Status", << Plain("retired") >>) }

(* records of the assignee workflow *)
AssigneeStores(display) ==
    { << Laptop("1", e \o a), Laptop("2", One("User Email", << Plain("cy@x") >>)) >> :
          e \in EmailChoices, a \in AssigneeChoices(display) }

(* records of the retirement workflow *)
RetirementStores ==
    { << Laptop("1", d \o s),
         Laptop("2", One("Retirement Date", << Plain("2023-06-30") >>)
                         \o One("Asset Status", << Plain("In Use") >>)) >> :
          d \in RetirementDateChoices, s \in StatusChoices }

(* the keys the operator may name: a stored record and one that is not *)
Keys == {"HW-1", "HW-9"}

AssigneeFaults ==
    {"none", "get_object", "search_user", "validate", "get_attributes",
     "update_error", "update_noop"}

RetirementFaults ==
    {"none", "get_object", "get_attributes", "update_error", "update_noop"}

(* the records a migration run starts from: HW-1 with its serial number and
   further attributes, HW-2, and a Desktops record DT-1 *)
Desktop(n, attributes) ==
    [id |-> "200" \o n, objectKey |-> "DT-" \o n, objectType |-> DesktopsType,
     attributes |-> attributes]

(* attribute instances a Laptops record may carry *)
AttributePool ==
    { One(serial_number_attribute, <<Plain("SN1")>>)[1],
      One(asset_status_attribute, <<Plain("In Use")>>)[1],
      One(asset_status_attribute, << >>)[1],
      One(asset_status_attribute, <<Plain("In Use"), Val(FALSE, None, "Active")>>)[1],
      One("Model", <<Val(FALSE, None, "MacBook")>>)[1],
      One("Model", <<Val(TRUE, "MacBook", "MacBook")>>)[1],
      One(assignee_attribute, <<Val(FALSE, None, "Al A")>>)[1],
      One(user_email_attribute, <<Plain("al@x")>>)[1],
      One(user_email_attribute, << >>)[1] }

MaxAttrs == 2

(* the attribute lists of at most n instances, no attribute twice *)
RECURSIVE AttributeLists(_)
AttributeLists(n) ==
    IF n = 0 THEN { << >> }
    ELSE LET shorter == AttributeLists(n - 1)
         IN shorter \cup
            { Append(l, a) :
                  <<l, a>> \in { p \in shorter \X AttributePool :
                                    \A i \in 1..Len(p[1]) : p[1][i].name # p[2].name } }

MappingStores == { << Laptop("1", attributes) >> : attributes \in AttributeLists(MaxAttrs) }

MigrationStores ==
    { << Laptop("1", One(serial_number_attribute, <<Plain("SN1")>>) \o rest),
         Laptop("2", One(serial_number_attribute, <<Plain("SN2")>>)
                         \o One(asset_status_attribute, <<Plain("In Use")>>)),
         Desktop("1", << Attr(DefByName(DesktopsType, serial_number_attribute),
                              <<Plain("SN3")>>) >>) >> :
      rest \in { One(asset_status_attribute, <<Plain("In Use")>>)
                     \o One(user_email_attribute, <<Plain("al@x")>>),
                 One("Model", <<Val(FALSE, None, "MacBook")>>)
                     \o One(assignee_attribute, <<Val(FALSE, None, "Al A")>>),
                 One(asset_status_attribute, << >>) } }

CsvFile(rows) == [exists |-> TRUE, fieldnames |-> <<"SERIAL_NUMBER">>, rows |-> rows]

(* files that parse to at least one serial number, and files that do not *)
CsvFiles ==
    { CsvFile(<<"sn1">>), CsvFile(<<"SN1", "SN2">>), CsvFile(<<"SN9", "sn 1">>),
      CsvFile(<<"", "SN3", "sn3 ">>) }

BadCsvFiles ==
    { CsvFile(<<" ">>),
      [exists |-> FALSE, fieldnames |-> << >>, rows |-> << >>],
      [exists |-> TRUE, fieldnames |-> <<"SERIAL">>, rows |-> <<"SN1">>] }

MigrationFaults == {"none", "find", "get_object", "get_attributes", "delete", "create"}

MigrateFaults == {"none", "get_attributes", "delete", "create"}

MaxObjects == 4

-----------------------------------------------------------------------------
(* The state machine *)

NoResult == [object_key |-> None]

NoFault == [stage |-> "none", key |-> None, f |-> "none"]

Idle == [op |-> "init", key |-> None, dry_run |-> FALSE, raised |-> NoExc,
         result |-> NoResult, results |-> << >>, fault |-> NoFault,
         repeat |-> FALSE, delete_original |-> FALSE, batch |-> << >>]

Init ==
    /\ \/ mode = "assignee" /\ userDisplay \in {"raw", "name"}
                           /\ objects \in AssigneeStores(userDisplay)
       \/ mode = "retirement" /\ objects \in RetirementStores /\ userDisplay = "raw"
       \/ mode = "migration" /\ objects \in MigrationStores /\ userDisplay = "raw"
       \/ mode = "mapping" /\ objects \in MappingStores /\ userDisplay = "raw"
    /\ user_cache = {}
    /\ attribute_cache = {}
    /\ list_cache = {}
    /\ calls = << >>
    /\ pre = objects
    /\ last = Idle
    /\ throttle = NoTraffic

(* the previous operation was the same single-record workflow on the same
   key, met no failing call and returned updated=true: this call is the
   immediate second run *)
IsRepeat(op, key) ==
    /\ last.op = op
    /\ last.key = key
    /\ last.fault = NoFault
    /\ last.raised = NoExc
    /\ last.result.updated

Commit(op, key, dry_run, f, out) ==
    /\ objects' = out.objects
    /\ user_cache' = out.user_cache
    /\ attribute_cache' = out.attribute_cache
    /\ calls' = out.calls
    /\ pre' = objects
    /\ last' = [op |-> op, key |-> key, dry_run |-> dry_run, raised |-> out.raised,
                result |-> out.result, results |-> << >>,
                fault |-> IF out.faulted THEN [stage |-> "call", key |-> key, f |-> f]
                          ELSE NoFault,
                repeat |-> IsRepeat(op, key), delete_original |-> FALSE,
                batch |-> <<key>>]
    /\ UNCHANGED <<throttle, mode, list_cache, userDisplay>>

(* the faults a bulk run may meet: none, or one, at one stage and record *)
BulkFaults(faults) ==
    {NoFault, [stage |-> "discover", key |-> None, f |-> "none"]}
        \cup {[stage |-> "filter", key |-> k, f |-> "none"] : k \in {"HW-1", "HW-2"}}
        \cup {[stage |-> "process", key |-> k, f |-> f] :
                  k \in {"HW-1", "HW-2"}, f \in faults \ {"none"}}

KeysOf(objs) == [i \in 1..Len(objs) |-> objs[i].objectKey]

CommitBulk(op, dry_run, bf, st, batch) ==
    /\ objects' = st.objects
    /\ user_cache' = st.user_cache
    /\ attribute_cache' = st.attribute_cache
    /\ calls' = st.calls
    /\ pre' = objects
    /\ last' = [op |-> op, key |-> None, dry_run |-> dry_run, raised |-> NoExc,
                result |-> NoResult, results |-> st.results,
                fault |-> IF st.faulted THEN bf ELSE NoFault,
                repeat |-> FALSE, delete_original |-> FALSE, batch |-> batch]
    /\ UNCHANGED <<throttle, mode, list_cache, userDisplay>>

ProcessAsset ==
    /\ mode = "assignee"
    /\ \E key \in Keys, dry_run \in BOOLEAN, f \in AssigneeFaults :
      \E out \in {process_asset(objects, user_cache, attribute_cache, userDisplay,
                                 key, dry_run, f)} :
          Commit("process_asset", key, dry_run, f, out)

ProcessRetirement ==
    /\ mode = "retirement"
    /\ \E key \in Keys, dry_run \in BOOLEAN, f \in RetirementFaults :
      \E out \in {process_retirement(objects, user_cache, attribute_cache,
                                      userDisplay, key, dry_run, f)} :
          Commit("process_retirement", key, dry_run, f, out)

BulkAssets ==
    /\ mode = "assignee"
    /\ \E dry_run \in BOOLEAN, bf \in BulkFaults(AssigneeFaults) :
      \E st \in {process_bulk_assets(objects, user_cache, attribute_cache,
                                      userDisplay, dry_run, bf)} :
          CommitBulk("process_bulk_assets", dry_run, bf, st,
                     KeysOf(filter_objects_for_processing(
                                objects,
                                get_hardware_laptops_objects(objects, DefaultLimit),
                                None)))

BulkRetirements ==
    /\ mode = "retirement"
    /\ \E dry_run \in BOOLEAN, bf \in BulkFaults(RetirementFaults) :
      \E st \in {process_asset_retirements(objects, user_cache, attribute_cache,
                                            userDisplay, dry_run, bf)} :
          CommitBulk("process_asset_retirements", dry_run, bf, st,
                     KeysOf(filter_assets_for_retirement(
                                objects,
                                get_assets_pending_retirement(objects, DefaultLimit),
                                None)))

(* the faults a migration run may meet: none, or one call failing for one
   serial number *)
SerialFaults ==
    {NoFault, [stage |-> "serial", key |-> "SN2", f |-> "find"]}
        \cup {[stage |-> "serial", key |-> "SN1", f |-> f] :
                  f \in MigrationFaults \ {"none"}}

(* the invocations of a migration run: a file, the target object type, the
   two switches and the fault the run meets *)
Job(csv, target, dry_run, delete_original, mf) ==
    [csv |-> csv, target |-> target, dry_run |-> dry_run,
     delete_original |-> delete_original, mf |-> mf]

Jobs ==
    { Job(csv, DesktopsType, dry_run, delete_original, mf) :
          csv \in CsvFiles, dry_run \in BOOLEAN, delete_original \in BOOLEAN,
          mf \in SerialFaults }
        \cup { Job(csv, DesktopsType, TRUE, FALSE, NoFault) : csv \in BadCsvFiles }
        \cup { Job(CsvFile(<<"sn1">>), "99", FALSE, TRUE, NoFault) }

Migration ==
    /\ mode = "migration"
    /\ Len(objects) < MaxObjects
    /\ \E job \in Jobs :
      \E st \in {process_asset_migration(objects, attribute_cache, userDisplay,
                                          job.csv, LaptopsType, job.target,
                                          job.dry_run, job.delete_original, job.mf)} :
        LET dry_run == job.dry_run
            delete_original == job.delete_original
            mf == job.mf
        IN /\ objects' = st.objects
           /\ attribute_cache' = st.attribute_cache
           /\ calls' = st.calls
           /\ pre' = objects
           /\ last' = [op |-> "process_asset_migration", key |-> None,
                       dry_run |-> dry_run, raised |-> st.raised,
                       result |-> NoResult, results |-> st.results,
                       fault |-> IF st.faulted THEN mf ELSE NoFault,
                       repeat |-> FALSE, delete_original |-> delete_original,
                       batch |-> parse_serial_numbers_from_csv(job.csv).serial_numbers]
           /\ UNCHANGED <<throttle, mode, list_cache, userDisplay, user_cache>>

(* migrate_object_to_type on a Laptops record of the store *)
MigrateObject ==
    /\ mode = "migration"
    /\ Len(objects) < MaxObjects
    /\ \E i \in {j \in 1..Len(objects) : objects[j].objectType = LaptopsType},
          delete_original \in BOOLEAN, f \in MigrateFaults :
      \E out \in {migrate_object_to_type(objects, attribute_cache, userDisplay,
                                          objects[i], DesktopsType, delete_original, f)} :
           /\ objects' = out.objects
           /\ attribute_cache' = out.attribute_cache
           /\ calls' = out.calls
           /\ pre' = objects
           /\ last' = [op |-> "migrate_object_to_type", key |-> objects[i].objectKey,
                       dry_run |-> FALSE, raised |-> out.exc,
                       result |-> out.migration_result, results |-> << >>,
                       fault |-> IF out.faulted
                                 THEN [stage |-> "call", key |-> objects[i].objectKey,
                                       f |-> f]
                                 ELSE NoFault,
                       repeat |-> FALSE, delete_original |-> delete_original,
                       batch |-> <<objects[i].objectKey>>]
           /\ UNCHANGED <<throttle, mode, list_cache, userDisplay, user_cache>>

(* map_attributes_between_types on the record of the store *)
MapAttributes ==
    /\ mode = "mapping"
    /\ \E target \in {LaptopsType, DesktopsType}, fault \in BOOLEAN :
      \E out \in {map_attributes_between_types(attribute_cache, objects[1], target, fault)} :
           /\ attribute_cache' = out.attribute_cache
           /\ calls' = << >>
           /\ pre' = objects
           /\ last' = [op |-> "map_attributes_between_types", key |-> target,
                       dry_run |-> FALSE, raised |-> out.exc,
                       result |-> [mapped |-> out.mapped, warnings |-> out.warnings,
                                   unmapped |-> out.unmapped],
                       results |-> << >>,
                       fault |-> IF out.exc # NoExc
                                 THEN [stage |-> "call", key |-> target,
                                       f |-> "get_attributes"]
                                 ELSE NoFault,
                       repeat |-> FALSE, delete_original |-> FALSE,
                       batch |-> <<objects[1].objectKey>>]
           /\ UNCHANGED <<throttle, mode, list_cache, userDisplay, user_cache, objects>>

Next ==
    \/ ProcessAsset
    \/ BulkAssets
    \/ ProcessRetirement
    \/ BulkRetirements
    \/ Migration
    \/ MigrateObject
    \/ MapAttributes

Spec == Init /\ [][Next]_vars

(* one workflow at a time, as the command line dispatches them *)
NextAssignee == ProcessAsset \/ BulkAssets

InitAssignee == Init /\ mode = "assignee"

SpecAssignee == InitAssignee /\ [][NextAssignee]_vars

NextRetirement == ProcessRetirement \/ BulkRetirements

InitRetirement == Init /\ mode = "retirement"

SpecRetirement == InitRetirement /\ [][NextRetirement]_vars

NextMigration == Migration \/ MigrateObject

InitMigration == Init /\ mode = "migration"

SpecMigration == InitMigration /\ [][NextMigration]_vars

NextMapping == MapAttributes

InitMapping == Init /\ mode = "mapping"

SpecMapping == InitMapping /\ [][NextMapping]_vars

-----------------------------------------------------------------------------
(* Properties of the assignee workflow *)

(* the account a normalized email stands for in the identity store: None when
   no user, or more than one without a single atlassian account, carries it *)
AccountOf(email) ==
    LET matches == {i \in 1..Len(Users) : Lower(Users[i].emailAddress) = email}
        atlassian == {i \in matches : Users[i].accountType = "atlassian"}
    IN IF Cardinality(matches) = 1 THEN Users[CHOOSE i \in matches : TRUE].accountId
       ELSE IF Cardinality(atlassian) = 1
       THEN Users[CHOOSE i \in atlassian : TRUE].accountId
       ELSE None

IsActive(account_id) ==
    \E i \in 1..Len(Users) : Users[i].accountId = account_id /\ Users[i].active

(* C1: process_asset decides a record by the first applicable rule, in the
   order (1) no or empty User Email -> skip "No 'User Email' attribute found",
   (2) the trimmed, lower-cased email has no account, or an ambiguous one ->
   skip "User lookup failed...", (3) account invalid or inactive -> skip,
   (4) current assignee equals the account id -> skip "Assignee already set
   to...", (5) otherwise success with new_assignee the account id; what a later
   rule would fill in stays unset once an earlier rule applies, and every skip
   has success=false, skipped=true, updated=false. *)
C1_RuleOrder ==
    (last.op = "process_asset" /\ last.raised = NoExc) =>
        LET r == last.result
            rec == ObjectByKey(pre, last.key)
            raw == extract_attribute_value(rec, user_email_attribute)
            email == IF IsTruthy(raw) THEN Lower(Strip(PyStr(raw))) ELSE None
            account == AccountOf(email)
            current == extract_current_assignee(rec)
        IN /\ r.skipped => ~r.success /\ ~r.updated
           /\ r.skipped \/ r.success
           /\ last.fault = NoFault =>
                IF ~Truthy(email)
                THEN /\ r.skipped
                     /\ r.skip_reason = "No 'User Email' attribute found"
                     /\ r.account_id = None /\ r.new_assignee = None
                ELSE IF account = None
                THEN /\ r.skipped
                     /\ StartsWith(r.skip_reason, "User lookup failed")
                     /\ r.user_email = email
                     /\ r.account_id = None /\ r.new_assignee = None
                ELSE IF ~IsActive(account)
                THEN /\ r.skipped
                     /\ ~StartsWith(r.skip_reason, "User lookup failed")
                     /\ ~StartsWith(r.skip_reason, "Assignee already set to")
                     /\ r.account_id = account /\ r.new_assignee = None
                ELSE IF current = account
                THEN /\ r.skipped
                     /\ StartsWith(r.skip_reason, "Assignee already set to")
                     /\ r.account_id = account /\ r.new_assignee = None
                ELSE /\ r.success /\ ~r.skipped
                     /\ r.new_assignee = account

(* a record whose email resolves to an inactive account and whose assignee is
   already set was skipped by rule (3), and another by rule (4) *)
C1_Witness ==
    /\ last.op = "process_asset" /\ last.raised = NoExc /\ last.fault = NoFault
    /\ last.result.skipped
    /\ last.result.account_id = "acc-di"
    /\ extract_current_assignee(ObjectByKey(pre, last.key)) # None

-----------------------------------------------------------------------------
(* Properties across the workflows *)

(* C2: a dry run never mutates the backend: process_asset, process_retirement,
   the bulk runs and process_asset_migration with dry_run=True issue no
   update_object, delete_object or create_object call and leave the store as it
   was; every result they return has updated=false (original_deleted=false and
   no new record for a migration), and a record that is neither skipped nor
   failed is reported with success=true. *)
C2_DryRunNeverMutates ==
    last.dry_run =>
        /\ calls = << >>
        /\ objects = pre
        /\ (last.op \in {"process_asset", "process_retirement"} /\ last.raised = NoExc) =>
               /\ ~last.result.updated
               /\ ~last.result.skipped => last.result.success
        /\ last.op \in {"process_bulk_assets", "process_asset_retirements"} =>
               \A i \in 1..Len(last.results) :
                   LET r == last.results[i]
                   IN "updated" \in DOMAIN r =>
                          /\ ~r.updated
                          /\ ~r.skipped => r.success
        /\ last.op = "process_asset_migration" =>
               \A i \in 1..Len(last.results) :
                   LET r == last.results[i]
                   IN /\ ~r.original_deleted
                      /\ r.new_object_key = None /\ r.new_object_id = None
                      /\ (~r.skipped /\ r.error = None) => r.success

(* a dry-run migration with delete_original set found its record and reported
   the projected mapping *)
C2_Witness ==
    /\ last.op = "process_asset_migration" /\ last.dry_run /\ last.delete_original
    /\ \E i \in 1..Len(last.results) :
           /\ last.results[i].success
           /\ last.results[i].mapped_attributes > 0
           /\ last.results[i].unmapped_attributes # << >>

(* C3: process_asset and process_retirement raise AssetNotFoundError when the
   record key does not exist; they raise AssetUpdateError when, after the
   update call, the assignee is still None (the status is not exactly
   "Retired"), and such a call is reported neither as a skip nor as a success;
   on every skip path they return a result and raise nothing. *)
C3_RaiseOrReturn ==
    last.op \in {"process_asset", "process_retirement"} =>
        LET r == last.result
            key == last.key
            after == ObjectByKey(objects, key)
            rec == ObjectByKey(pre, key)
            raw == extract_attribute_value(rec, user_email_attribute)
            email == IF IsTruthy(raw) THEN Lower(Strip(PyStr(raw))) ELSE None
            status == extract_attribute_value(rec, asset_status_attribute)
            skip_path ==
                IF last.op = "process_asset"
                THEN \/ ~Truthy(email)
                     \/ AccountOf(email) = None
                     \/ ~IsActive(AccountOf(email))
                     \/ extract_current_assignee(rec) = AccountOf(email)
                ELSE \/ ~IsTruthy(extract_attribute_value(rec, retirement_date_attribute))
                     \/ (status.kind = "scalar" /\ status.scalar = "Retired")
            unverified ==
                /\ calls # << >>
                /\ IF last.op = "process_asset"
                   THEN IsNone(extract_attribute_value(after, assignee_attribute))
                   ELSE LET now == extract_attribute_value(after, asset_status_attribute)
                        IN ~(now.kind = "scalar" /\ now.scalar = "Retired")
        IN /\ (~HasKey(pre, key) /\ last.fault = NoFault) =>
                  last.raised.cls = "AssetNotFoundError"
           /\ (HasKey(pre, key) /\ unverified) =>
                  /\ last.raised.cls = "AssetUpdateError"
                  /\ ~r.success /\ ~r.skipped
           /\ (HasKey(pre, key) /\ last.fault = NoFault /\ skip_path) =>
                  /\ last.raised = NoExc
                  /\ r.skipped /\ ~r.success
           /\ (last.raised = NoExc /\ r.skipped) => calls = << >>

(* the backend accepted a retirement update without applying it, and the call
   raised AssetUpdateError *)
C3_Witness ==
    /\ last.op = "process_retirement"
    /\ calls # << >>
    /\ objects = pre
    /\ last.fault.f = "update_noop"
    /\ last.raised.cls = "AssetUpdateError"

-----------------------------------------------------------------------------
(* Idempotence of the two reconciliation workflows *)

(* C6: after a process_asset call that returned updated=true, a second call
   for the same key, with nothing changed in between and no collaborator call
   failing, resolves the same account id, returns skipped=true with
   skip_reason "Assignee already set to <account id>" and issues no
   update_object call. *)
C6_AssigneeIdempotent ==
    (last.op = "process_asset" /\ last.repeat /\ last.fault = NoFault) =>
        LET raw == extract_attribute_value(ObjectByKey(pre, last.key), user_email_attribute)
            account == AccountOf(Lower(Strip(PyStr(raw))))
        IN /\ last.raised = NoExc
           /\ last.result.account_id = account
           /\ last.result.skipped
           /\ last.result.skip_reason = "Assignee already set to " \o account
           /\ calls = << >>
           /\ objects = pre

(* the second call read the user's display name as the current assignee,
   found it different from the account id and updated the record again *)
C6_SecondRunUpdates ==
    /\ last.op = "process_asset" /\ last.repeat /\ last.fault = NoFault
    /\ last.raised = NoExc
    /\ last.result.updated /\ ~last.result.skipped
    /\ last.result.current_assignee = "Al A"
    /\ last.result.new_assignee = "acc-al"
    /\ calls # << >>

(* C7: for a record whose Asset Status is exactly "Retired", process_retirement,
   dry-run or not, returns a skip and issues no update_object call; and after
   a call that returned updated=true, a second call on the unchanged record
   returns skipped=true and raises nothing (no collaborator call failing). *)
C7_RetirementIdempotent ==
    (last.op = "process_retirement" /\ last.fault = NoFault /\ HasKey(pre, last.key)) =>
        LET status == extract_attribute_value(ObjectByKey(pre, last.key),
                                              asset_status_attribute)
            retired == status.kind = "scalar" /\ status.scalar = "Retired"
        IN (retired \/ last.repeat) =>
               /\ last.raised = NoExc
               /\ last.result.skipped /\ ~last.result.updated
               /\ calls = << >>
               /\ objects = pre

(* a second retirement call followed one that updated the record *)
C7_Witness ==
    /\ last.op = "process_retirement" /\ last.repeat /\ last.fault = NoFault
    /\ last.result.skipped
    /\ last.result.skip_reason = "Asset already has status 'Retired'"

-----------------------------------------------------------------------------
(* Properties of the migration *)

(* the mutating calls made on behalf of source record id, in the order issued *)
CallsFor(id) == SelectSeq(calls, LAMBDA c : c.src = id)

(* the source records of the last migration: the one migrate_object_to_type
   was given, or those the run found by serial number and went on to migrate *)
MigratedSources ==
    IF last.op = "migrate_object_to_type" THEN {last.result.source_object_id}
    ELSE IF last.op = "process_asset_migration" /\ ~last.dry_run
    THEN {last.results[i].source_object_id : i \in 1..Len(last.results)} \ {None}
    ELSE {}

(* C8: in migrate_object_to_type with delete_original=true the delete of the
   source record is issued before the create of the new record, and when the
   delete fails (the source record is still in the store) the migration ends
   in an error and create_object is never called for that record; with
   delete_original=false delete_object is never called. *)
C8_DeleteBeforeCreate ==
    \A id \in MigratedSources :
        LET mine == CallsFor(id)
            deletes == {i \in 1..Len(mine) : mine[i].op = "delete_object"}
            creates == {i \in 1..Len(mine) : mine[i].op = "create_object"}
            errors ==
                IF last.op = "migrate_object_to_type"
                THEN last.raised # NoExc /\ last.result.error # None
                ELSE \A i \in 1..Len(last.results) :
                         last.results[i].source_object_id = id =>
                             /\ last.results[i].error # None
                             /\ ~last.results[i].success
                             /\ last.results[i].new_object_key = None
        IN IF last.delete_original
           THEN /\ \A c \in creates : \E d \in deletes : d < c /\ mine[d].id = id
                /\ (HasId(pre, id) /\ HasId(objects, id)) =>
                       /\ creates = {}
                       /\ errors
           ELSE /\ deletes = {}
                /\ HasId(pre, id) => HasId(objects, id)

(* the delete of the source record failed: the call was issued, the record is
   still there and nothing was created *)
C8_Witness ==
    /\ last.op = "migrate_object_to_type" /\ last.delete_original
    /\ last.fault.f = "delete"
    /\ \E i \in 1..Len(calls) : calls[i].op = "delete_object"
    /\ objects = pre
    /\ last.raised.cls = "JiraAssetsAPIError"

(* C10: in every migration result the mapped attribute count is the number of
   attribute entries sent to create_object for that record, and no name listed
   in unmapped_attributes is the name of an attribute definition of the target
   object type. *)
C10_MigrationResult ==
    LET target == TypeAttrs(DesktopsType)
        named(unmapped) ==
            \A i \in 1..Len(unmapped) :
                \A j \in 1..Len(target) : target[j].name # unmapped[i]
        sent(id, count) ==
            \A i \in 1..Len(calls) :
                (calls[i].op = "create_object" /\ calls[i].src = id) =>
                    calls[i].n = count
        created(id) ==
            \E i \in 1..Len(calls) : calls[i].op = "create_object" /\ calls[i].src = id
    IN /\ last.op = "migrate_object_to_type" =>
              /\ sent(last.result.source_object_id, last.result.mapped_attributes)
              /\ named(last.result.unmapped_attributes)
              /\ last.raised = NoExc =>
                     /\ created(last.result.source_object_id)
                     /\ HasId(objects, last.result.new_object_id)
                     /\ Len(ObjectById(objects, last.result.new_object_id).attributes)
                            = last.result.mapped_attributes
       /\ last.op = "process_asset_migration" =>
              \A k \in 1..Len(last.results) :
                  LET r == last.results[k]
                  IN /\ named(r.unmapped_attributes)
                     /\ (r.success /\ ~r.dry_run) =>
                            /\ created(r.source_object_id)
                            /\ sent(r.source_object_id, r.mapped_attributes)

(* a migration that created the new record from some of the source attributes
   and listed the others as unmapped *)
C10_Witness ==
    /\ last.op = "migrate_object_to_type" /\ last.raised = NoExc
    /\ last.result.success
    /\ last.result.mapped_attributes > 1
    /\ last.result.unmapped_attributes # << >>
    /\ \E i \in 1..Len(calls) :
           calls[i].op = "create_object" /\ calls[i].n = last.result.mapped_attributes

-----------------------------------------------------------------------------
(* Properties of the schema mapping *)

(* C9: for any source record and target object type, every source attribute
   instance with at least one value ends in exactly one of mapped (an entry
   with the id of the target definition of its name) and unmapped (its name),
   never both and never neither; an instance with no value is in neither; the
   mapped entries follow the source order and carry the target definition's
   id; and len(mapped) + len(unmapped) is at most the number of source
   instances with at least one value. *)
C9_MappingComplete ==
    (last.op = "map_attributes_between_types" /\ last.raised = NoExc) =>
        LET source == objects[1].attributes
            target == TypeAttrs(last.key)
            mapped == last.result.mapped
            unmapped == last.result.unmapped
            target_id(name) ==
                IF \E j \in 1..Len(target) : target[j].name = name
                THEN target[CHOOSE j \in 1..Len(target) : target[j].name = name].id
                ELSE -1
            in_mapped(a) ==
                \E i \in 1..Len(mapped) : mapped[i].objectTypeAttributeId = target_id(a.name)
            in_unmapped(a) ==
                \E i \in 1..Len(unmapped) : unmapped[i] = a.name
            valued == {i \in 1..Len(source) : Len(source[i].vals) > 0}
            position(i) ==
                CHOOSE k \in 1..Len(source) :
                    target_id(source[k].name) = mapped[i].objectTypeAttributeId
        IN /\ \A i \in 1..Len(source) :
                  IF i \in valued
                  THEN in_mapped(source[i]) # in_unmapped(source[i])
                  ELSE ~in_mapped(source[i]) /\ ~in_unmapped(source[i])
           /\ \A i \in 1..Len(mapped) :
                  \E k \in valued :
                      target_id(source[k].name) = mapped[i].objectTypeAttributeId
           /\ \A i, j \in 1..Len(mapped) : i < j => position(i) < position(j)
           /\ Len(mapped) + Len(unmapped) <= Cardinality(valued)

(* the record's Model attribute has one value, a reference that carries no raw
   value; the target type defines Model; the mapping lists it neither as
   mapped nor as unmapped *)
C9_ValueDropped ==
    /\ last.op = "map_attributes_between_types" /\ last.raised = NoExc
    /\ last.key = DesktopsType
    /\ \E i \in 1..Len(objects[1].attributes) :
           /\ objects[1].attributes[i].name = "Model"
           /\ Len(objects[1].attributes[i].vals) = 1
           /\ ~objects[1].attributes[i].vals[1].hasValue
    /\ \A i \in 1..Len(last.result.mapped) :
           last.result.mapped[i].objectTypeAttributeId
               # DefByName(DesktopsType, "Model").id
    /\ \A i \in 1..Len(last.result.unmapped) : last.result.unmapped[i] # "Model"

-----------------------------------------------------------------------------
(* Properties of the batch runs *)

(* C4: when the fetch of record k of a batch of N records raises, the bulk run
   (process_bulk_assets, process_asset_retirements, the per-serial loop of
   process_asset_migration) still returns N results in input order, result k
   marked as an error (error set, success=false), and each other result what
   that record yields on its own. *)
C4_ErrorIsolation ==
    LET n == Len(last.batch)
        fetch_failed ==
            \/ last.fault.stage = "filter"
            \/ last.fault.stage = "process" /\ last.fault.f = "get_object"
            \/ last.fault.stage = "serial" /\ last.fault.f \in {"find", "get_object"}
        id(r) == IF last.op = "process_asset_migration" THEN r.serial_number
                 ELSE r.object_key
        alone(key) ==
            IF last.op = "process_bulk_assets"
            THEN process_asset(pre, {}, {}, userDisplay, key, last.dry_run, "none").result
            ELSE process_retirement(pre, {}, {}, userDisplay, key, last.dry_run,
                                    "none").result
    IN (/\ last.op \in {"process_bulk_assets", "process_asset_retirements",
                        "process_asset_migration"}
        /\ last.raised = NoExc
        /\ fetch_failed
        /\ \E i \in 1..n : last.batch[i] = last.fault.key) =>
           /\ Len(last.results) = n
           /\ \A i \in 1..n :
                  /\ id(last.results[i]) = last.batch[i]
                  /\ IF last.batch[i] = last.fault.key
                     THEN last.results[i].error # None /\ ~last.results[i].success
                     ELSE last.op # "process_asset_migration" =>
                              last.results[i] = alone(last.batch[i])

(* the fetch of HW-1 failed while the bulk run filtered the discovered
   records: the run returned a result for HW-2 only *)
C4_RecordDropped ==
    /\ last.op = "process_bulk_assets"
    /\ last.fault.stage = "filter" /\ last.fault.key = "HW-1"
    /\ last.batch = <<"HW-1", "HW-2">>
    /\ Len(last.results) = 1
    /\ last.results[1].object_key = "HW-2"

(* C5: a record the backend reports as not existing is never a skip and never
   left out: process_asset and process_retirement raise AssetNotFoundError;
   the bulk discovery filters, whose fetch of a discovered record raises,
   still yield an error result for it; the migration loop yields for a serial
   number no source record carries a result with error set and skipped=false. *)
C5_NotFoundIsAnError ==
    /\ (/\ last.op \in {"process_asset", "process_retirement"}
        /\ last.fault = NoFault
        /\ ~HasKey(pre, last.key)) =>
           last.raised.cls = "AssetNotFoundError"
    /\ (/\ last.op \in {"process_bulk_assets", "process_asset_retirements"}
        /\ last.fault.stage = "filter"
        /\ \E i \in 1..Len(last.batch) : last.batch[i] = last.fault.key) =>
           \E i \in 1..Len(last.results) :
               /\ last.results[i].object_key = last.fault.key
               /\ last.results[i].error # None
    /\ (/\ last.op = "process_asset_migration"
        /\ last.raised = NoExc
        /\ last.fault = NoFault) =>
           \A i \in 1..Len(last.batch) :
               (~\E j \in 1..Len(pre) :
                      /\ pre[j].objectType = LaptopsType
                      /\ HasSerial(pre[j], last.batch[i])) =>
                   \E k \in 1..Len(last.results) :
                       /\ last.results[k].serial_number = last.batch[i]
                       /\ last.results[k].error # None
                       /\ ~last.results[k].skipped

(* no Laptops record carries serial number SN9: its result is a skip, with no
   error set *)
C5_NotFoundSkipped ==
    /\ last.op = "process_asset_migration" /\ last.fault = NoFault
    /\ \E k \in 1..Len(last.results) :
           /\ last.results[k].serial_number = "SN9"
           /\ last.results[k].skipped
           /\ last.results[k].error = None
           /\ ~last.results[k].success

-----------------------------------------------------------------------------
(* Attribute extraction on its own: one record, one extraction at a time *)

(* an attribute instance as a query response carries it: the definition id
   without the definition's name *)
Unnamed(a) == [a EXCEPT !.name = None]

ExtractStores ==
    MappingStores
        \cup { << Laptop("1", <<Unnamed(a), b>>) >> :
                   <<a, b>> \in { p \in AttributePool \X AttributePool :
                                     p[1].name # p[2].name } }

(* the names and the ids a caller may ask for: those of the schema and one
   that no definition carries; an id comes as an int or as its text *)
ExtractNames ==
    { TypeAttrs(LaptopsType)[i].name : i \in 1..Len(TypeAttrs(LaptopsType)) }
        \cup {"Warranty"}

ExtractIds ==
    { PyInt(TypeAttrs(LaptopsType)[i].id) : i \in 1..Len(TypeAttrs(LaptopsType)) }
        \cup { PyText(ToString(TypeAttrs(LaptopsType)[i].id)) :
                   i \in 1..Len(TypeAttrs(LaptopsType)) }
        \cup { PyInt(99), PyText("99") }

InitExtract ==
    /\ mode = "extract"
    /\ objects \in ExtractStores
    /\ userDisplay = "raw"
    /\ user_cache = {}
    /\ attribute_cache = {}
    /\ list_cache = {}
    /\ calls = << >>
    /\ pre = objects
    /\ last = Idle
    /\ throttle = NoTraffic

Extracted(op, key, value) ==
    /\ last' = [Idle EXCEPT !.op = op, !.key = key, !.result = value,
                            !.batch = <<objects[1].objectKey>>]
    /\ pre' = objects
    /\ calls' = << >>
    /\ UNCHANGED <<throttle, mode, list_cache, objects, userDisplay, user_cache, attribute_cache>>

ExtractByName ==
    /\ mode = "extract"
    /\ \E attribute_name \in ExtractNames :
           Extracted("extract_attribute_value", attribute_name,
                     extract_attribute_value(objects[1], attribute_name))

ExtractById ==
    /\ mode = "extract"
    /\ \E attribute_id \in ExtractIds :
           Extracted("extract_attribute_value_by_id", attribute_id,
                     extract_attribute_value_by_id(objects[1], attribute_id))

NextExtract == ExtractByName \/ ExtractById

SpecExtract == InitExtract /\ [][NextExtract]_vars

(* the value entries of the first attribute instance of the record that the
   last extraction matched: by definition name, or by definition id whether
   the caller wrote the id as a number or as text; found is false when none
   did *)
MatchedValues ==
    LET attributes == pre[1].attributes
        matches(a) ==
            IF last.op = "extract_attribute_value" THEN a.name = last.key
            ELSE ToString(a.id) = (IF last.key.py = "int" THEN ToString(last.key.int)
                                   ELSE last.key.str)
        hits == {i \in 1..Len(attributes) : matches(attributes[i])}
    IN IF hits = {} THEN [found |-> FALSE, vals |-> << >>]
       ELSE [found |-> TRUE,
             vals |-> attributes[CHOOSE i \in hits : \A j \in hits : i <= j].vals]

(* C11: extraction by name and by id returns null when no attribute instance
   matches or the matching one has no values; with n >= 1 values it returns
   the one display value exactly when n = 1 and otherwise the list of the n
   display values in the record's order; the record is left as it was. *)
C11_ExtractionLaws ==
    last.op \in {"extract_attribute_value", "extract_attribute_value_by_id"} =>
        /\ objects = pre
        /\ LET vals == MatchedValues.vals
               value == last.result
           IN IF ~MatchedValues.found THEN value = NoneResult
              ELSE IF Len(vals) = 0 THEN value = NoneResult
              ELSE IF Len(vals) = 1
              THEN value.kind = "scalar" /\ value.scalar = vals[1].displayValue
              ELSE /\ value.kind = "list"
                   /\ Len(value.list) = Len(vals)
                   /\ \A i \in 1..Len(vals) : value.list[i] = vals[i].displayValue

(* an extraction by the text of an id met an instance that carries no
   definition name and two values, and returned both in order *)
C11_Witness ==
    /\ last.op = "extract_attribute_value_by_id"
    /\ last.key = PyText("4")
    /\ Len(pre[1].attributes) > 0
    /\ pre[1].attributes[1].name = None
    /\ last.result.kind = "list"
    /\ last.result.list = <<"In Use", "Active">>

-----------------------------------------------------------------------------
(* create_attribute_update on its own: the client's definition cache is the
   state, each call names an attribute, a value and an object type *)

UpdateNames == {assignee_attribute, "assignee", asset_status_attribute,
                user_email_attribute, "Warranty"}

UpdateValues == {PyText("acc-al"), PyText("Retired"), PyText(""), PyInt(7), PyInt(42)}

InitUpdate ==
    /\ mode = "create_attribute_update"
    /\ objects = << >>
    /\ userDisplay = "raw"
    /\ user_cache = {}
    /\ attribute_cache = {}
    /\ list_cache = {}
    /\ calls = << >>
    /\ pre = objects
    /\ last = Idle
    /\ throttle = NoTraffic

CreateAttributeUpdate ==
    /\ mode = "create_attribute_update"
    /\ \E attribute_name \in UpdateNames, value \in UpdateValues,
          object_type_id \in {LaptopsType, DesktopsType}, fault \in BOOLEAN :
      \E out \in {create_attribute_update(attribute_cache, attribute_name, value,
                                          object_type_id, fault)} :
           /\ attribute_cache' = out.attribute_cache
           /\ last' = [Idle EXCEPT
                          !.op = "create_attribute_update",
                          !.key = [attribute_name |-> attribute_name, value |-> value,
                                   object_type_id |-> object_type_id],
                          !.raised = out.exc, !.result = out.update,
                          !.fault = IF out.exc.cls = "JiraAssetsAPIError"
                                    THEN [stage |-> "call", key |-> object_type_id,
                                          f |-> "get_attributes"]
                                    ELSE NoFault]
           /\ UNCHANGED <<throttle, mode, list_cache, objects, userDisplay, user_cache, calls, pre>>

NextUpdate == CreateAttributeUpdate

SpecUpdate == InitUpdate /\ [][NextUpdate]_vars

(* C12: create_attribute_update returns the id of the definition that carries
   exactly the given name on the given object type together with one value
   entry, the string form of the value; when the type has no definition of
   that name it raises AttributeNotFoundError and returns no update.  (When
   the definitions cannot be fetched the call raises the API error and
   returns no update either.) *)
C12_UpdateStructure ==
    last.op = "create_attribute_update" =>
        LET definitions == TypeAttrs(last.key.object_type_id)
            named == {i \in 1..Len(definitions) :
                          definitions[i].name = last.key.attribute_name}
            text == IF last.key.value.py = "int" THEN ToString(last.key.value.int)
                    ELSE last.key.value.str
        IN IF last.fault # NoFault
           THEN last.raised.cls = "JiraAssetsAPIError" /\ last.result = NoUpdate
           ELSE IF named = {}
           THEN last.raised.cls = "AttributeNotFoundError" /\ last.result = NoUpdate
           ELSE /\ last.raised = NoExc
                /\ \E i \in named : last.result.objectTypeAttributeId = definitions[i].id
                /\ Len(last.result.objectAttributeValues) = 1
                /\ last.result.objectAttributeValues[1].value = text

(* an update of Asset Status on the Desktops type was built for a number:
   the definition's id and the number's text *)
C12_Witness ==
    /\ last.op = "create_attribute_update"
    /\ last.key.value = PyInt(42)
    /\ last.raised = NoExc
    /\ last.result.objectAttributeValues = << [value |-> "42"] >>
    /\ last.result.objectTypeAttributeId = 12

-----------------------------------------------------------------------------
(* AssetManager.resolve_status_name_to_id: a status name to what the backend
   stores for it *)

(* the Asset Status definition as the backend describes it: defaultType is
   the name under 'defaultType' (None when the definition has none), the
   two lists are typeValue's 'statusTypeValues' and 'statusValues' *)
StatusDef(defaultType, statusTypeValues, statusValues) ==
    [id |-> 4, name |-> asset_status_attribute, defaultType |-> defaultType,
     statusTypeValues |-> statusTypeValues, statusValues |-> statusValues]

SerialDef == [id |-> 5, name |-> serial_number_attribute, defaultType |-> "Text",
              statusTypeValues |-> << >>, statusValues |-> << >>]

RECURSIVE AvailableStatuses(_)
AvailableStatuses(status_type_values) ==
    IF Len(status_type_values) = 0 THEN << >>
    ELSE (IF Truthy(Head(status_type_values).name)
          THEN <<Head(status_type_values).name>> ELSE << >>)
             \o AvailableStatuses(Tail(status_type_values))

resolve_status_name_to_id(attributes, status_name, fault) ==
    LET hits == {i \in 1..Len(attributes) : attributes[i].name = asset_status_attribute}
        status_attribute == attributes[CHOOSE i \in hits : \A j \in hits : i <= j]
        default_type_name == status_attribute.defaultType
        status_type_values ==
            IF Len(status_attribute.statusTypeValues) > 0
            THEN status_attribute.statusTypeValues
            ELSE status_attribute.statusValues
        named == {i \in 1..Len(status_type_values) :
                      status_type_values[i].name = status_name}
    IN IF fault
       THEN [exc |-> Exc("JiraAssetsAPIError", "Network error while retrieving attributes"),
             value |-> None]
       ELSE IF hits = {}
       THEN [exc |-> Exc("ValueError",
                         "Status attribute '" \o asset_status_attribute \o "' not found"),
             value |-> None]
       ELSE IF Truthy(default_type_name) /\ Lower(default_type_name) # "status"
       THEN [exc |-> NoExc, value |-> status_name]
       ELSE IF named # {}
       THEN [exc |-> NoExc,
             value |-> Str(PyInt(status_type_values[
                           CHOOSE i \in named : \A j \in named : i <= j].id))]
       ELSE [exc |-> Exc("ValueError",
                         "Status '" \o status_name \o "' not found. Available statuses: ["
                             \o JoinRepr(AvailableStatuses(status_type_values)) \o "]"),
             value |-> None]

(* the status values of a Status-typed definition *)
StatusValues == << [id |-> 1, name |-> "In Use"], [id |-> 2, name |-> "Retired"] >>

(* the schemas a resolution may meet: the status attribute typed Status in
   either spelling, typed otherwise, described without a defaultType name,
   with its values under either key or none, or missing altogether *)
StatusSchemas ==
    { <<SerialDef, StatusDef(t, stv, sv)>> :
          t \in {"Status", "status", "Text", "Select", None, ""},
          stv \in {<< >>, StatusValues}, sv \in {<< >>, StatusValues} }
        \cup { <<SerialDef>> }

StatusNames == {"In Use", "Retired", "retired", "Bogus", ""}

InitResolve ==
    /\ mode = "resolve_status"
    /\ objects = << >>
    /\ userDisplay = "raw"
    /\ user_cache = {}
    /\ attribute_cache = {}
    /\ list_cache = {}
    /\ calls = << >>
    /\ pre = objects
    /\ last = Idle
    /\ throttle = NoTraffic

ResolveStatus ==
    /\ mode = "resolve_status"
    /\ \E attributes \in StatusSchemas, status_name \in StatusNames, fault \in BOOLEAN :
      \E out \in {resolve_status_name_to_id(attributes, status_name, fault)} :
           /\ last' = [Idle EXCEPT
                          !.op = "resolve_status_name_to_id",
                          !.key = [attributes |-> attributes, status_name |-> status_name],
                          !.raised = out.exc, !.result = out.value,
                          !.fault = IF fault
                                    THEN [stage |-> "call", key |-> LaptopsType,
                                          f |-> "get_attributes"]
                                    ELSE NoFault]
           /\ UNCHANGED <<throttle, mode, list_cache, objects, userDisplay, user_cache, attribute_cache,
                          calls, pre>>

NextResolve == ResolveStatus

SpecResolve == InitResolve /\ [][NextResolve]_vars

(* the defaultType name of the status definition the last resolution met,
   "absent" when the schema has no status attribute *)
MetDefaultType ==
    LET attributes == last.key.attributes
        hits == {i \in 1..Len(attributes) : attributes[i].name = asset_status_attribute}
    IN IF hits = {} THEN "absent"
       ELSE attributes[CHOOSE i \in hits : TRUE].defaultType

(* C13: when the status attribute's defaultType name is anything but "Status"
   in any letter case, a definition without a defaultType name included, the
   resolution returns the given string unchanged, whatever the string, and
   raises nothing. *)
C13_PassThrough ==
    (/\ last.op = "resolve_status_name_to_id"
     /\ last.fault = NoFault
     /\ MetDefaultType # "absent"
     /\ (MetDefaultType \in {None, ""} \/ Lower(MetDefaultType) # "status"))
        => /\ last.raised = NoExc
           /\ last.result = last.key.status_name

(* a definition without a defaultType name and without status values was
   asked for "In Use": the resolution raised the not-found ValueError *)
C13_UntypedNotResolved ==
    /\ last.op = "resolve_status_name_to_id"
    /\ last.fault = NoFault
    /\ MetDefaultType = None
    /\ last.key.status_name = "In Use"
    /\ last.raised.cls = "ValueError"
    /\ last.result = None

-----------------------------------------------------------------------------
(* AssetManager.get_processing_summary: the tally of a run's results *)

(* sub in s *)
Contains(s, sub) ==
    \E i \in 1..(Len(s) - Len(sub) + 1) : SubSeq(s, i, i + Len(sub) - 1) = sub

(* a grouping that asks about permissions before it asks about not found *)
ErrorType_permission_first(error) ==
    ByValue([lowered \in {Lower(error)} |->
        IF Contains(lowered, "permission") \/ Contains(lowered, "denied")
        THEN "Permission Denied"
        ELSE IF Contains(lowered, "not found") THEN "Not Found"
        ELSE IF Contains(lowered, "rate limit") THEN "Rate Limited"
        ELSE "Other Error"])

ErrorType(error) ==
    ByValue([lowered \in {Lower(error)} |->
        IF Contains(lowered, "not found") THEN "Not Found"
        ELSE IF Contains(lowered, "permission") \/ Contains(lowered, "denied")
        THEN "Permission Denied"
        ELSE IF Contains(lowered, "rate limit") THEN "Rate Limited"
        ELSE "Other Error"])

(* d[k] = d.get(k, 0) + 1 *)
Counted(d, k) ==
    IF k \in DOMAIN d THEN [d EXCEPT ![k] = @ + 1] ELSE d @@ (k :> 1)

RECURSIVE SkipReasons(_, _)
SkipReasons(results, skip_reasons) ==
    IF Len(results) = 0 THEN skip_reasons
    ELSE LET r == Head(results)
         IN SkipReasons(Tail(results),
                        IF Get(r, "skipped", FALSE) /\ Truthy(Get(r, "skip_reason", None))
                        THEN Counted(skip_reasons, r.skip_reason)
                        ELSE skip_reasons)

RECURSIVE ErrorTypes(_, _)
ErrorTypes(results, error_types) ==
    IF Len(results) = 0 THEN error_types
    ELSE LET r == Head(results)
         IN ErrorTypes(Tail(results),
                       IF Truthy(Get(r, "error", None))
                       THEN Counted(error_types, ErrorType(r.error))
                       ELSE error_types)

(* the five tallies of the summary; a key a result lacks is read with
   r.get(key, False) *)
SummaryCounts(results) ==
    LET total == Len(results)
    IN [total_processed |-> total,
        successful |-> Cardinality({i \in 1..total : Get(results[i], "success", FALSE)}),
        updated |-> Cardinality({i \in 1..total : Get(results[i], "updated", FALSE)}),
        skipped |-> Cardinality({i \in 1..total : Get(results[i], "skipped", FALSE)}),
        errors |-> Cardinality({i \in 1..total : Truthy(Get(results[i], "error", None))})]

(* the summary without its timestamp; success_rate, a float in the code, is
   kept as the fraction successful * 100 / total *)
get_processing_summary(results) ==
    LET counts == SummaryCounts(results)
    IN [total_processed |-> counts.total_processed,
        successful |-> counts.successful,
        updated |-> counts.updated,
        skipped |-> counts.skipped,
        errors |-> counts.errors,
        success_rate |-> IF counts.total_processed > 0
                         THEN <<counts.successful * 100, counts.total_processed>>
                         ELSE <<0, 1>>,
        skip_reasons |-> SkipReasons(results, << >>),
        error_types |-> ErrorTypes(results, << >>)]

(* results as the workflows produce them *)
SummaryResult(success, updated, skipped, skip_reason, error) ==
    [success |-> success, updated |-> updated, skipped |-> skipped,
     skip_reason |-> skip_reason, error |-> error]

ResultPool ==
    { SummaryResult(TRUE, TRUE, FALSE, None, None),
      SummaryResult(TRUE, FALSE, TRUE, "No email", None),
      SummaryResult(TRUE, FALSE, TRUE, "Already set", None),
      SummaryResult(FALSE, FALSE, TRUE, None, None),
      SummaryResult(FALSE, FALSE, FALSE, None, "HW-1 Not Found"),
      SummaryResult(FALSE, FALSE, FALSE, None, "permission: not found"),
      SummaryResult(FALSE, FALSE, FALSE, None, "Access DENIED"),
      SummaryResult(FALSE, FALSE, FALSE, None, "Rate Limit 429"),
      SummaryResult(FALSE, FALSE, FALSE, None, "denied by rate limit"),
      SummaryResult(FALSE, FALSE, FALSE, None, "Timeout"),
      SummaryResult(FALSE, FALSE, FALSE, None, "") }

MaxResults == 3

InitSummary ==
    /\ mode = "summary"
    /\ objects = << >>
    /\ userDisplay = "raw"
    /\ user_cache = {}
    /\ attribute_cache = {}
    /\ list_cache = {}
    /\ calls = << >>
    /\ pre = objects
    /\ last = [Idle EXCEPT !.result = get_processing_summary(<< >>)]
    /\ throttle = NoTraffic

(* the summary of a run that produced one more result than the last one *)
Summarize ==
    /\ mode = "summary"
    /\ Len(last.results) < MaxResults
    /\ \E r \in ResultPool :
      \E results \in {Append(last.results, r)} :
           /\ last' = [Idle EXCEPT !.op = "get_processing_summary",
                                   !.results = results,
                                   !.result = get_processing_summary(results)]
           /\ UNCHANGED <<throttle, mode, list_cache, objects, userDisplay, user_cache, attribute_cache,
                          calls, pre>>

NextSummary == Summarize

SpecSummary == InitSummary /\ [][NextSummary]_vars

(* the bucket the claim gives an error text: the first of the four tests, in
   their order, that the text passes when letter case is ignored *)
Bucket(error) ==
    LET has(sub) == \E i \in 1..Len(error) : \E j \in i..Len(error) :
                        Lower(SubSeq(error, i, j)) = sub
    IN IF has("not found") THEN "Not Found"
       ELSE IF has("permission") \/ has("denied") THEN "Permission Denied"
       ELSE IF has("rate limit") THEN "Rate Limited"
       ELSE "Other Error"

SumOf(d) ==
    LET RECURSIVE Total(_)
        Total(keys) == IF keys = {} THEN 0
                       ELSE LET k == CHOOSE x \in keys : TRUE
                            IN d[k] + Total(keys \ {k})
    IN Total(DOMAIN d)

(* C14: the summary is a tally: total_processed is the number of results;
   each result with a non-empty error is counted in exactly one error bucket,
   the first that matches in the order not found, permission or denied, rate
   limit, other; the buckets sum to the errors count; the skip-reason counts
   sum to the number of skipped results that carry a reason. *)
C14_SummaryTally ==
    last.op = "get_processing_summary" =>
        LET results == last.results
            summary == last.result
            failed == {i \in 1..Len(results) : results[i].error \notin {None, ""}}
            reasoned == {i \in 1..Len(results) :
                             results[i].skipped /\ results[i].skip_reason \notin {None, ""}}
        IN /\ summary.total_processed = Len(results)
           /\ summary.errors = Cardinality(failed)
           /\ DOMAIN summary.error_types = {Bucket(results[i].error) : i \in failed}
           /\ \A b \in DOMAIN summary.error_types :
                  summary.error_types[b] =
                      Cardinality({i \in failed : Bucket(results[i].error) = b})
           /\ SumOf(summary.error_types) = summary.errors
           /\ DOMAIN summary.skip_reasons = {results[i].skip_reason : i \in reasoned}
           /\ \A reason \in DOMAIN summary.skip_reasons :
                  summary.skip_reasons[reason] =
                      Cardinality({i \in reasoned : results[i].skip_reason = reason})
           /\ SumOf(summary.skip_reasons) = Cardinality(reasoned)

(* three results were tallied: an error that names both a permission and
   "not found" went to Not Found, one skip carried no reason *)
C14_Witness ==
    /\ last.op = "get_processing_summary"
    /\ Len(last.results) = 3
    /\ \E i \in 1..3 : last.results[i].error = "permission: not found"
    /\ \E i \in 1..3 : last.results[i].skipped /\ last.results[i].skip_reason = None
    /\ \E i \in 1..3 : last.results[i].error = "Rate Limit 429"
    /\ last.result.error_types = ("Not Found" :> 1) @@ ("Rate Limited" :> 1)
    /\ last.result.skipped = 1
    /\ last.result.skip_reasons = << >>

-----------------------------------------------------------------------------
(* parse_serial_numbers_from_csv on its own: files of SERIAL_NUMBER cells *)

(* cells of the SERIAL_NUMBER column: blank, padded, in either letter case,
   with a space or a tab inside *)
CsvCells == {"", " ", " ab1", "AB1", "cd 2", "a\tb", "Cd2 "}

MaxRows == 3

InitCsv ==
    /\ mode = "csv"
    /\ objects = << >>
    /\ userDisplay = "raw"
    /\ user_cache = {}
    /\ attribute_cache = {}
    /\ list_cache = {}
    /\ calls = << >>
    /\ pre = objects
    /\ last = [Idle EXCEPT !.key = CsvFile(<< >>)]
    /\ throttle = NoTraffic

(* the file of the last call with one more row, or a file that is missing or
   lacks the column *)
ParseCsv ==
    /\ mode = "csv"
    /\ Len(last.key.rows) < MaxRows
    /\ \E csv \in {CsvFile(Append(last.key.rows, cell)) : cell \in CsvCells}
                      \cup {f \in BadCsvFiles : Len(last.key.rows) = 0} :
      \E out \in {parse_serial_numbers_from_csv(csv)} :
           /\ last' = [Idle EXCEPT !.op = "parse_serial_numbers_from_csv",
                                   !.key = csv, !.raised = out.exc,
                                   !.result = out.serial_numbers]
           /\ UNCHANGED <<throttle, mode, list_cache, objects, userDisplay, user_cache, attribute_cache,
                          calls, pre>>

NextCsv == ParseCsv

SpecCsv == InitCsv /\ [][NextCsv]_vars

(* the normal form the claim gives a cell: trimmed, upper-cased, no
   whitespace left inside *)
RECURSIVE NoWhitespace(_)
NoWhitespace(s) ==
    IF Len(s) = 0 THEN ""
    ELSE (IF SubSeq(s, 1, 1) \in {" ", "\t", "\n", "\r"} THEN ""
          ELSE IF SubSeq(s, 1, 1) \in DOMAIN UpperCase THEN UpperCase[SubSeq(s, 1, 1)]
          ELSE SubSeq(s, 1, 1))
             \o NoWhitespace(SubSeq(s, 2, Len(s)))

(* the normal forms of the non-empty rows, each once, at the position of its
   first occurrence *)
RECURSIVE FirstOccurrences(_, _)
FirstOccurrences(rows, out) ==
    IF Len(rows) = 0 THEN out
    ELSE LET v == NoWhitespace(Head(rows))
         IN FirstOccurrences(Tail(rows),
                             IF v = "" \/ v \in {out[i] : i \in 1..Len(out)} THEN out
                             ELSE Append(out, v))

(* C15: for any list of SERIAL_NUMBER cells the parse yields the normal
   forms (trimmed, upper-cased, internal whitespace removed) of the non-empty
   rows, each exactly once at the position of its first occurrence; parsing
   its own output yields the output again; a file without the SERIAL_NUMBER
   column fails with a ValidationError and yields no serials. *)
C15_CsvParsing ==
    last.op = "parse_serial_numbers_from_csv" /\ last.key.exists =>
        IF \A i \in 1..Len(last.key.fieldnames) : last.key.fieldnames[i] # "SERIAL_NUMBER"
        THEN last.raised.cls = "ValidationError" /\ last.result = << >>
        ELSE /\ last.raised = NoExc
             /\ last.result = FirstOccurrences(last.key.rows, << >>)
             /\ parse_serial_numbers_from_csv(CsvFile(last.result)).serial_numbers
                    = last.result

(* a cell with a tab inside was parsed and the tab is still in the serial *)
C15_TabKept ==
    /\ last.op = "parse_serial_numbers_from_csv"
    /\ last.key.rows = <<" ab1", "a\tb">>
    /\ last.raised = NoExc
    /\ last.result = <<"AB1", "A\tB">>

-----------------------------------------------------------------------------
(* AssetManager._normalize_date_yyyy_mm_dd *)

Digits == [c \in {"0", "1", "2", "3", "4", "5", "6", "7", "8", "9"} |->
              CASE c = "0" -> 0 [] c = "1" -> 1 [] c = "2" -> 2 [] c = "3" -> 3
                [] c = "4" -> 4 [] c = "5" -> 5 [] c = "6" -> 6 [] c = "7" -> 7
                [] c = "8" -> 8 [] c = "9" -> 9]

(* str.isdigit() *)
IsDigit(s) ==
    Len(s) > 0 /\ \A i \in 1..Len(s) : SubSeq(s, i, i) \in DOMAIN Digits

(* the largest value of a C int: datetime() converts its arguments to C ints
   and raises OverflowError for a larger one *)
IntMax == 2147483647

(* the value of a digit string, left to right; big: it exceeds IntMax *)
RECURSIVE DigitsValue(_, _)
DigitsValue(s, acc) ==
    IF Len(s) = 0 THEN [big |-> FALSE, value |-> acc]
    ELSE LET d == Digits[SubSeq(s, 1, 1)]
         IN IF acc > (IntMax - d) \div 10
            THEN [big |-> TRUE, value |-> 0]
            ELSE DigitsValue(SubSeq(s, 2, Len(s)), acc * 10 + d)

(* int(s): surrounding whitespace and one leading sign are accepted, then
   digits only; anything else is ValueError (ok = FALSE) *)
ParseInt(s) ==
    LET t == Strip(s)
        signed == Len(t) > 0 /\ SubSeq(t, 1, 1) \in {"+", "-"}
        body == IF signed THEN SubSeq(t, 2, Len(t)) ELSE t
        v == DigitsValue(body, 0)
    IN IF ~IsDigit(body) THEN [ok |-> FALSE, big |-> FALSE, value |-> 0]
       ELSE [ok |-> TRUE, big |-> v.big,
             value |-> IF signed /\ SubSeq(t, 1, 1) = "-" THEN 0 - v.value ELSE v.value]

(* str.replace of one character by another *)
RECURSIVE ReplaceChar(_, _, _)
ReplaceChar(s, old, new) ==
    IF Len(s) = 0 THEN ""
    ELSE (IF SubSeq(s, 1, 1) = old THEN new ELSE SubSeq(s, 1, 1))
             \o ReplaceChar(SubSeq(s, 2, Len(s)), old, new)

(* str.split on a one-character separator; cur: the part being read *)
RECURSIVE SplitOn(_, _, _)
SplitOn(s, sep, cur) ==
    IF Len(s) = 0 THEN <<cur>>
    ELSE IF SubSeq(s, 1, 1) = sep
    THEN <<cur>> \o SplitOn(SubSeq(s, 2, Len(s)), sep, "")
    ELSE SplitOn(SubSeq(s, 2, Len(s)), sep, cur \o SubSeq(s, 1, 1))

IsLeap(year) == year % 4 = 0 /\ (year % 100 # 0 \/ year % 400 = 0)

DaysInMonth(year, month) ==
    IF month = 2 THEN (IF IsLeap(year) THEN 29 ELSE 28)
    ELSE IF month \in {4, 6, 9, 11} THEN 30 ELSE 31

(* datetime(year, month, day) -> "ok", "ValueError" or "OverflowError" *)
datetime(year, month, day) ==
    IF year.big \/ month.big \/ day.big THEN "OverflowError"
    ELSE IF year.value < 1 \/ year.value > 9999 THEN "ValueError"
    ELSE IF month.value < 1 \/ month.value > 12 THEN "ValueError"
    ELSE IF day.value < 1 \/ day.value > DaysInMonth(year.value, month.value)
    THEN "ValueError"
    ELSE "ok"

(* format n with at least width digits, zero-padded *)
RECURSIVE Pad(_, _)
Pad(s, width) == IF Len(s) >= width THEN s ELSE Pad("0" \o s, width)

(* the variant that reports every failure of datetime() as ValidationError *)
DateFailure_validation(outcome) ==
    Exc("ValidationError", "Invalid purchase date value. Use YYYY-MM-DD (e.g., 2025-09-15)")

(* except ValueError: only a ValueError becomes ValidationError; any other
   exception leaves the function as it is *)
DateFailure(outcome) ==
    IF outcome = "ValueError"
    THEN Exc("ValidationError", "Invalid purchase date value. Use YYYY-MM-DD (e.g., 2025-09-15)")
    ELSE Exc(outcome, "signed integer is greater than maximum")

(* _normalize_date_yyyy_mm_dd -> [exc, value] *)
normalize_date_yyyy_mm_dd(date_str) ==
    LET s == Strip(IF date_str = None THEN "" ELSE date_str)
        parts == SplitOn(ReplaceChar(s, "/", "-"), "-", "")
    IN IF s = ""
       THEN [exc |-> Exc("ValidationError", "Purchase date cannot be empty if provided"),
             value |-> None]
       ELSE IF Len(parts) # 3
       THEN [exc |-> Exc("ValidationError",
                         "Invalid purchase date format. Use YYYY-MM-DD (e.g., 2025-09-15)"),
             value |-> None]
       ELSE LET a == parts[1]
                b == parts[2]
                c == parts[3]
                year_first == Len(a) = 4 /\ IsDigit(a)
                year == ParseInt(IF year_first THEN a ELSE c)
                month == ParseInt(b)
                day == ParseInt(IF year_first THEN c ELSE a)
                dt == datetime(year, month, day)
            IN IF ~(year.ok /\ month.ok /\ day.ok)
               THEN [exc |-> DateFailure("ValueError"), value |-> None]
               ELSE IF dt # "ok"
               THEN [exc |-> DateFailure(dt), value |-> None]
               ELSE [exc |-> NoExc,
                     value |-> Pad(ToString(year.value), 4) \o "-"
                                   \o Pad(ToString(month.value), 2) \o "-"
                                   \o Pad(ToString(day.value), 2)]

-----------------------------------------------------------------------------
(* cache_manager: the file cache of the computed lists *)

(* self.cache_ttl = 24 * 60 * 60, in hours *)
CacheTtl == 24

(* a cache file: the key names the file, age is the time since the file was
   written (time.time() - st_mtime), in hours *)
CacheEntry(cache_key, data) == [key |-> cache_key, data |-> data, age |-> 0]

(* a validity test that still accepts a file exactly cache_ttl old *)
IsCached_inclusive(cache, cache_key) ==
    \E e \in cache : e.key = cache_key /\ e.age <= CacheTtl

(* _is_cache_valid: the file exists and age < cache_ttl *)
IsCached(cache, cache_key) == \E e \in cache : e.key = cache_key /\ e.age < CacheTtl

(* get_cached_data: the data of a valid entry (IsCached says whether there
   is one: the code's None) *)
get_cached_data(cache, cache_key) ==
    (CHOOSE e \in cache : e.key = cache_key).data

cache_data(cache, cache_key, data) ==
    {e \in cache : e.key # cache_key} \cup {CacheEntry(cache_key, data)}

(* an invalidation that removes every cache file: invalidate_cache(None) *)
invalidate_cache_all(cache, cache_key) == {}

invalidate_cache(cache, cache_key) == {e \in cache : e.key # cache_key}

(* the cache files after some hours have passed *)
Elapse(cache, hours) == {[e EXCEPT !.age = @ + hours] : e \in cache}

-----------------------------------------------------------------------------
(* Python's ordering of text, for list.sort and sorted: the characters of
   the modelled texts in code point order *)

CodeOrder ==
    " '()+,-./0123456789:ABCDEFGHIJKLMNOPQRSTUVWXYZ_abcdefghijklmnopqrstuvwxyz"

CharCode(c) ==
    LET at == {i \in 1..Len(CodeOrder) : SubSeq(CodeOrder, i, i) = c}
    IN IF at = {} THEN 0 ELSE CHOOSE i \in at : TRUE

(* a < b *)
RECURSIVE StrLess(_, _)
StrLess(a, b) ==
    IF Len(b) = 0 THEN FALSE
    ELSE IF Len(a) = 0 THEN TRUE
    ELSE IF SubSeq(a, 1, 1) = SubSeq(b, 1, 1)
    THEN StrLess(SubSeq(a, 2, Len(a)), SubSeq(b, 2, Len(b)))
    ELSE CharCode(SubSeq(a, 1, 1)) < CharCode(SubSeq(b, 1, 1))

(* a stable sort of entries [sort, item] by their sort text: x goes behind
   every entry that is not greater *)
RECURSIVE InsertSorted(_, _)
InsertSorted(x, sorted) ==
    IF Len(sorted) = 0 THEN <<x>>
    ELSE IF StrLess(x.sort, Head(sorted).sort) THEN <<x>> \o sorted
    ELSE <<Head(sorted)>> \o InsertSorted(x, Tail(sorted))

RECURSIVE SortEntries(_, _)
SortEntries(entries, sorted) ==
    IF Len(entries) = 0 THEN sorted
    ELSE SortEntries(Tail(entries), InsertSorted(Head(entries), sorted))

Items(entries) == [i \in 1..Len(entries) |-> entries[i].item]

-----------------------------------------------------------------------------
(* AssetManager: the suppliers *)

(* the 'name' of a record as the backend returns it: the value of its Name
   attribute, '' for a record without one *)
ObjectName(obj) ==
    LET named == {i \in 1..Len(obj.attributes) :
                      obj.attributes[i].name = "Name" /\ Len(obj.attributes[i].vals) > 0}
    IN IF named = {} THEN ""
       ELSE obj.attributes[CHOOSE i \in named : TRUE].vals[1].value

(* the entries of list_suppliers for the records found, in their order *)
RECURSIVE SupplierEntries(_)
SupplierEntries(all_suppliers) ==
    IF Len(all_suppliers) = 0 THEN << >>
    ELSE LET supplier_name == ObjectName(Head(all_suppliers))
             supplier_key == Head(all_suppliers).objectKey
         IN (IF Truthy(supplier_name) /\ Truthy(supplier_key)
             THEN << [sort |-> Lower(Strip(supplier_name)),
                      item |-> [name |-> Strip(supplier_name), key |-> supplier_key]] >>
             ELSE << >>)
                \o SupplierEntries(Tail(all_suppliers))

(* list_suppliers -> [exc, suppliers, list_cache]; fault: a backend call of
   the listing fails *)
list_suppliers(objs, cache, fault) ==
    IF IsCached(cache, "suppliers_list")
    THEN [exc |-> NoExc, suppliers |-> get_cached_data(cache, "suppliers_list"),
          list_cache |-> cache]
    ELSE IF fault
    THEN [exc |-> Exc("JiraAssetsAPIError", "Network error while searching objects"),
          suppliers |-> << >>, list_cache |-> cache]
    ELSE LET all_suppliers ==
                 FetchAllPages(SelectSeq(objs, LAMBDA o : o.objectType = SuppliersType),
                               0, DefaultLimit, << >>)
             supplier_list == Items(SortEntries(SupplierEntries(all_suppliers), << >>))
         IN [exc |-> NoExc, suppliers |-> supplier_list,
             list_cache |-> cache_data(cache, "suppliers_list", supplier_list)]

(* create_supplier -> [exc, supplier, objects, attribute_cache, list_cache, calls] *)
create_supplier(objs, acache, cache, display, supplier_name, fault) ==
    LET got == get_object_attributes(acache, SuppliersType, FALSE)
        name_attrs == {i \in 1..Len(got.attributes) : got.attributes[i].name = "Name"}
        name_attr_id == got.attributes[CHOOSE i \in name_attrs : \A j \in name_attrs : i <= j].id
        payload_attributes ==
            << [objectTypeAttributeId |-> name_attr_id,
                objectAttributeValues |-> << [value |-> supplier_name] >>] >>
        made == create_object(objs, SuppliersType, payload_attributes, fault, display,
                              supplier_name)
    IN IF name_attrs = {}
       THEN [exc |-> Exc("AttributeNotFoundError",
                         "Name attribute not found for Suppliers object type"),
             supplier |-> [name |-> None, key |-> None], objects |-> objs,
             attribute_cache |-> got.attribute_cache, list_cache |-> cache,
             calls |-> << >>]
       ELSE IF made.exc # NoExc
       THEN [exc |-> made.exc, supplier |-> [name |-> None, key |-> None],
             objects |-> objs, attribute_cache |-> got.attribute_cache,
             list_cache |-> cache, calls |-> made.calls]
       ELSE [exc |-> NoExc,
             supplier |-> [name |-> Strip(supplier_name), key |-> made.data.objectKey],
             objects |-> made.objects, attribute_cache |-> got.attribute_cache,
             list_cache |-> invalidate_cache(cache, "suppliers_list"),
             calls |-> made.calls]

(* resolve_supplier_name_to_key -> [exc, key, objects, attribute_cache,
   list_cache, calls]; f: "suppliers" the listing fails, "create_supplier" the
   creation fails *)
resolve_supplier_name_to_key(objs, acache, cache, display, supplier_name, f) ==
    LET listed == list_suppliers(objs, cache, f = "suppliers")
        known == {i \in 1..Len(listed.suppliers) :
                      Lower(listed.suppliers[i].name) = Lower(supplier_name)}
        made == create_supplier(objs, acache, listed.list_cache, display, supplier_name,
                                f = "create_supplier")
    IN IF listed.exc # NoExc
       THEN [exc |-> listed.exc, key |-> None, objects |-> objs,
             attribute_cache |-> acache, list_cache |-> listed.list_cache,
             calls |-> << >>]
       ELSE IF known # {}
       THEN [exc |-> NoExc,
             key |-> listed.suppliers[CHOOSE i \in known : \A j \in known : i <= j].key,
             objects |-> objs, attribute_cache |-> acache,
             list_cache |-> listed.list_cache, calls |-> << >>]
       ELSE [exc |-> made.exc, key |-> made.supplier.key, objects |-> made.objects,
             attribute_cache |-> made.attribute_cache, list_cache |-> made.list_cache,
             calls |-> made.calls]

-----------------------------------------------------------------------------
(* The configuration an AssetManager works with *)

(* the module-level config object: the attribute names Config defines as
   properties.  It has no serial_number_attribute, model_name_attribute,
   invoice_number_attribute, purchase_date_attribute, cost_attribute,
   colour_attribute or supplier_attribute: reading one raises AttributeError *)
ShippedConfig ==
    [hardware_schema_name |-> "Hardware",
     laptops_object_schema_name |-> "Laptops",
     user_email_attribute |-> user_email_attribute,
     assignee_attribute |-> assignee_attribute,
     retirement_date_attribute |-> retirement_date_attribute,
     asset_status_attribute |-> asset_status_attribute]

(* a config_override that names the attributes of a new asset as well *)
OverrideConfig(hardware_schema_name) ==
    [hardware_schema_name |-> hardware_schema_name,
     laptops_object_schema_name |-> "Laptops",
     user_email_attribute |-> user_email_attribute,
     assignee_attribute |-> assignee_attribute,
     retirement_date_attribute |-> retirement_date_attribute,
     asset_status_attribute |-> asset_status_attribute,
     serial_number_attribute |-> "Serial Number",
     model_name_attribute |-> "Model",
     invoice_number_attribute |-> "Invoice Number",
     purchase_date_attribute |-> "Purchase Date",
     cost_attribute |-> "Cost",
     colour_attribute |-> "Colour",
     supplier_attribute |-> "Supplier"]

HasAttr(cfg, name) == name \in DOMAIN cfg

AttributeError(name) ==
    Exc("AttributeError", "'Config' object has no attribute '" \o name \o "'")

(* get_laptops_object_type -> [exc, id]: the Laptops type of the configured
   schema *)
get_laptops_object_type(cfg, fault) ==
    IF fault
    THEN [exc |-> Exc("JiraAssetsAPIError", "Network error while retrieving schemas"),
          id |-> None]
    ELSE IF cfg.hardware_schema_name = "Hardware" THEN [exc |-> NoExc, id |-> FleetType]
    ELSE IF cfg.hardware_schema_name = "Office" THEN [exc |-> NoExc, id |-> PlainType]
    ELSE [exc |-> Exc("SchemaNotFoundError",
                      "Hardware schema '" \o cfg.hardware_schema_name \o "' not found"),
          id |-> None]

(* get_attribute_id_by_name on fetched definitions: the id as text, None
   when no definition carries the name *)
AttributeIdByName(attributes, attribute_name) ==
    LET hits == {i \in 1..Len(attributes) : attributes[i].name = attribute_name}
    IN IF hits = {} THEN None
       ELSE Str(PyInt(attributes[CHOOSE i \in hits : \A j \in hits : i <= j].id))

(* objectType = "Laptops" AND "<model_name_attribute>" IS NOT EMPTY: the
   type is matched by its name, in whichever schema *)
ModelBearing(objs, cfg) ==
    SelectSeq(objs, LAMBDA o : /\ o.objectType \in {FleetType, PlainType}
                               /\ HasValues(o, cfg.model_name_attribute))

(* the body of list_models' loop over all_objects: the name a record adds *)
ModelEntry(obj, model_name_attribute_id) ==
    LET model_name == extract_attribute_value_by_id(obj, PyText(model_name_attribute_id))
        text == IF model_name.kind = "scalar" /\ Truthy(model_name.scalar)
                THEN Strip(model_name.scalar) ELSE ""
    IN IF text # "" THEN << [sort |-> Lower(text), item |-> text] >> ELSE << >>

(* the model names list_models collects from the records, in their order;
   the list is taken by halves *)
RECURSIVE ModelEntries(_, _)
ModelEntries(all_objects, model_name_attribute_id) ==
    IF Len(all_objects) = 0 THEN << >>
    ELSE IF Len(all_objects) = 1 THEN ModelEntry(all_objects[1], model_name_attribute_id)
    ELSE ModelEntries(SubSeq(all_objects, 1, Len(all_objects) \div 2),
                      model_name_attribute_id)
            \o ModelEntries(SubSeq(all_objects, Len(all_objects) \div 2 + 1,
                                    Len(all_objects)),
                            model_name_attribute_id)

(* a list without its repetitions, first occurrences kept; the list is taken
   by halves *)
RECURSIVE Distinct(_)
Distinct(l) ==
    IF Len(l) <= 1 THEN l
    ELSE ByValue([front \in {Distinct(SubSeq(l, 1, Len(l) \div 2))} |->
             front \o SelectSeq(Distinct(SubSeq(l, Len(l) \div 2 + 1, Len(l))),
                                LAMBDA x : \A i \in 1..Len(front) : front[i] # x)])

(* list_models -> [exc, models, attribute_cache, list_cache]; fault: a backend
   call of the listing fails *)
list_models(objs, acache, cache, cfg, fault) ==
    IF IsCached(cache, "models_list")
    THEN [exc |-> NoExc, models |-> get_cached_data(cache, "models_list"),
          attribute_cache |-> acache, list_cache |-> cache]
    ELSE LET type == get_laptops_object_type(cfg, fault)
             got == get_object_attributes(acache, type.id, FALSE)
             model_name_attribute_id ==
                 AttributeIdByName(got.attributes, cfg.model_name_attribute)
             all_objects == FetchAllPages(ModelBearing(objs, cfg), 0, DefaultLimit, << >>)
             sorted_models ==
                 Items(SortEntries(Distinct(ModelEntries(all_objects,
                                                         model_name_attribute_id)),
                                   << >>))
         IN IF type.exc # NoExc
            THEN [exc |-> type.exc, models |-> << >>, attribute_cache |-> acache,
                  list_cache |-> cache]
            ELSE IF ~HasAttr(cfg, "model_name_attribute")
            THEN [exc |-> AttributeError("model_name_attribute"), models |-> << >>,
                  attribute_cache |-> acache, list_cache |-> cache]
            ELSE IF model_name_attribute_id = None
            THEN [exc |-> Exc("AttributeNotFoundError",
                              "Attribute '" \o cfg.model_name_attribute
                                  \o "' not found in object type " \o type.id),
                  models |-> << >>, attribute_cache |-> got.attribute_cache,
                  list_cache |-> cache]
            ELSE [exc |-> NoExc, models |-> sorted_models,
                  attribute_cache |-> got.attribute_cache,
                  list_cache |-> cache_data(cache, "models_list", sorted_models)]


(* the first value of the attribute entries that names the model: its
   display value equals model_name or contains it, and it carries the key of
   the referenced record.  [found, key] *)
RECURSIVE ModelKeyInValues(_, _)
ModelKeyInValues(vals, model_name) ==
    IF Len(vals) = 0 THEN [found |-> FALSE, key |-> None]
    ELSE LET display_value == IF Head(vals).displayValue = None THEN ""
                              ELSE Head(vals).displayValue
         IN IF (display_value = model_name \/ Contains(display_value, model_name))
                /\ Truthy(Head(vals).value)
            THEN [found |-> TRUE, key |-> Head(vals).value]
            ELSE ModelKeyInValues(Tail(vals), model_name)

RECURSIVE ModelKeyInAttributes(_, _, _)
ModelKeyInAttributes(attributes, model_name_attribute_id, model_name) ==
    IF Len(attributes) = 0 THEN [found |-> FALSE, key |-> None]
    ELSE LET hit == IF Str(PyInt(Head(attributes).id)) = model_name_attribute_id
                    THEN ModelKeyInValues(Head(attributes).vals, model_name)
                    ELSE [found |-> FALSE, key |-> None]
         IN IF hit.found THEN hit
            ELSE ModelKeyInAttributes(Tail(attributes), model_name_attribute_id, model_name)

(* the loop over the records of the query's page: a record whose own key is
   model_name answers with it, otherwise its attribute values are searched;
   the page is taken by halves, the first half first *)
RECURSIVE ModelKeyInObjects(_, _, _)
ModelKeyInObjects(page, model_name_attribute_id, model_name) ==
    IF Len(page) = 0 THEN [found |-> FALSE, key |-> None]
    ELSE IF Len(page) = 1
    THEN IF page[1].objectKey = model_name THEN [found |-> TRUE, key |-> model_name]
         ELSE ModelKeyInAttributes(page[1].attributes, model_name_attribute_id,
                                   model_name)
    ELSE ByValue([hit \in {ModelKeyInObjects(SubSeq(page, 1, Len(page) \div 2),
                                             model_name_attribute_id, model_name)} |->
            IF hit.found THEN hit
            ELSE ModelKeyInObjects(SubSeq(page, Len(page) \div 2 + 1, Len(page)),
                                   model_name_attribute_id, model_name)])

(* str() of the first five names of a list *)
FirstFive(l) == "[" \o JoinRepr(SubSeq(l, 1, Min(5, Len(l)))) \o "]"

(* resolve_model_name_to_object_key -> [exc, key, attribute_cache, list_cache];
   fault: the query for the model-bearing records fails *)
resolve_model_name_to_object_key(objs, acache, cache, cfg, model_name, fault) ==
    LET type == get_laptops_object_type(cfg, FALSE)
        got == get_object_attributes(acache, type.id, FALSE)
        model_name_attribute_id ==
            AttributeIdByName(got.attributes, cfg.model_name_attribute)
        page == find_objects_by_aql(ModelBearing(objs, cfg), 0, 100)
        hit == ModelKeyInObjects(page, model_name_attribute_id, model_name)
        available_models == list_models(objs, got.attribute_cache, cache, cfg, FALSE)
    IN IF type.exc # NoExc
       THEN [exc |-> type.exc, key |-> None, attribute_cache |-> acache,
             list_cache |-> cache]
       ELSE IF ~HasAttr(cfg, "model_name_attribute")
       THEN [exc |-> AttributeError("model_name_attribute"), key |-> None,
             attribute_cache |-> acache, list_cache |-> cache]
       ELSE IF model_name_attribute_id = None
       THEN [exc |-> Exc("AttributeNotFoundError",
                         "Attribute '" \o cfg.model_name_attribute
                             \o "' not found in object type " \o type.id),
             key |-> None, attribute_cache |-> got.attribute_cache, list_cache |-> cache]
       ELSE IF fault
       THEN [exc |-> Exc("JiraAssetsAPIError", "Network error while searching objects"),
             key |-> None, attribute_cache |-> got.attribute_cache, list_cache |-> cache]
       ELSE IF hit.found
       THEN [exc |-> NoExc, key |-> hit.key, attribute_cache |-> got.attribute_cache,
             list_cache |-> cache]
       ELSE IF available_models.exc # NoExc
       THEN [exc |-> available_models.exc, key |-> None,
             attribute_cache |-> available_models.attribute_cache,
             list_cache |-> available_models.list_cache]
       ELSE [exc |-> Exc("ValueError",
                         "Model '" \o model_name \o "' not found. Available models: "
                             \o FirstFive(available_models.models) \o "..."),
             key |-> None, attribute_cache |-> available_models.attribute_cache,
             list_cache |-> available_models.list_cache]

-----------------------------------------------------------------------------
(* AssetManager.create_asset *)

(* the arguments of a create_asset call; an optional one not given is None *)
NewAsset(serial, model_name, status, is_remote, invoice_number, purchase_date, cost, colour, supplier) ==
    [serial |-> serial, model_name |-> model_name, status |-> status,
     is_remote |-> is_remote, invoice_number |-> invoice_number,
     purchase_date |-> purchase_date, cost |-> cost, colour |-> colour,
     supplier |-> supplier]

(* the result dict create_asset starts from *)
NewAssetResult(a) ==
    [success |-> FALSE, serial_number |-> a.serial, model_name |-> a.model_name,
     status |-> a.status, is_remote |-> a.is_remote,
     invoice_number |-> a.invoice_number, purchase_date |-> a.purchase_date,
     cost |-> a.cost, colour |-> a.colour, supplier |-> a.supplier,
     object_key |-> None, object_id |-> None, error |-> None]

(* not s or not s.strip() *)
Blank(s) == ~Truthy(s) \/ Strip(s) = ""

(* s.strip() if s else s *)
StripIf(s) == IF Truthy(s) THEN Strip(s) ELSE s

(* the part of create_asset before its try block -> [error, raised, args]:
   error is the message of a validation failure (None: the input passed),
   raised an exception that leaves create_asset, args the stripped
   arguments with the purchase date normalized *)
ValidateNewAsset(a) ==
    LET stripped == NewAsset(StripIf(a.serial), StripIf(a.model_name), StripIf(a.status),
                             a.is_remote, StripIf(a.invoice_number),
                             StripIf(a.purchase_date), StripIf(a.cost),
                             StripIf(a.colour), StripIf(a.supplier))
        dated == normalize_date_yyyy_mm_dd(stripped.purchase_date)
        args == IF Truthy(stripped.purchase_date) /\ dated.exc = NoExc
                THEN [stripped EXCEPT !.purchase_date = dated.value] ELSE stripped
    IN IF Blank(a.serial)
       THEN [error |-> "Serial number cannot be empty", raised |-> NoExc, args |-> a]
       ELSE IF Blank(a.model_name)
       THEN [error |-> "Model name cannot be empty", raised |-> NoExc, args |-> a]
       ELSE IF Blank(a.status)
       THEN [error |-> "Status cannot be empty", raised |-> NoExc, args |-> a]
       ELSE IF Truthy(stripped.purchase_date) /\ dated.exc.cls = "ValidationError"
       THEN [error |-> dated.exc.msg, raised |-> NoExc, args |-> a]
       ELSE IF Truthy(stripped.purchase_date) /\ dated.exc # NoExc
       THEN [error |-> None, raised |-> dated.exc, args |-> a]
       ELSE IF Len(args.serial) < 2 \/ Len(args.serial) > 128
       THEN [error |-> "Serial number must be between 2 and 128 characters, got "
                           \o ToString(Len(args.serial)),
             raised |-> NoExc, args |-> args]
       ELSE [error |-> None, raised |-> NoExc, args |-> args]

(* the serial numbers create_asset knows by name *)
integration_test_serials ==
    {"VALID-SERIAL-001", "INTEGRATION-TEST-001", "MAPPING-TEST-001", "INTERACTIVE-001",
     "SN12345", "ABC123", "DEF456", "GHI789"}

error_test_serials == {"ERROR-TEST-001", "ERROR-TEST-002", "ERROR-TEST-003", "TEST-FAIL"}

expected_duplicate_serials == {"DUPLICATE123"}

(* a duplicate check that asks the backend about every serial number *)
DuplicateCheck_backend(serial) == "query"

(* what create_asset does about duplicates for a serial number: "bypass" no
   check at all, "forced" a duplicate is reported without asking the backend,
   "query" the backend is asked *)
DuplicateCheck(serial) ==
    IF StartsWith(serial, "STATUS-TEST-") THEN "bypass"
    ELSE IF serial \in integration_test_serials THEN "bypass"
    ELSE IF serial \in error_test_serials THEN "bypass"
    ELSE IF serial \in expected_duplicate_serials THEN "forced"
    ELSE "query"

(* the page size of find_objects_by_aql when the caller names none *)
AqlLimit == 25

(* "<name>" = "<serial>" *)
HasAttributeValue(obj, name, value) ==
    \E i \in 1..Len(obj.attributes) :
        /\ obj.attributes[i].name = name
        /\ \E j \in 1..Len(obj.attributes[i].vals) : obj.attributes[i].vals[j].value = value

(* the except clauses that close create_asset's try block: the error message
   of the result *)
CreateAssetError(e) ==
    IF e.cls = "ValueError" THEN e.msg
    ELSE IF e.cls \in {"JiraAssetsAPIError", "AssetNotFoundError", "SchemaNotFoundError",
                       "ObjectTypeNotFoundError", "AttributeNotFoundError"}
    THEN "API error creating asset: " \o e.msg
    ELSE "Unexpected error creating asset: " \o e.msg

(* name in attr_map *)
InAttrMap(attributes, name) == \E i \in 1..Len(attributes) : attributes[i].name = name

(* attr_map[name]: the id of the last definition of that name *)
AttrMap(attributes, name) ==
    LET hits == {i \in 1..Len(attributes) : attributes[i].name = name}
    IN attributes[CHOOSE i \in hits : \A j \in hits : i >= j].id

(* one entry of the payload, or none when the type has no such attribute *)
PayloadEntry(attributes, name, value) ==
    IF ~InAttrMap(attributes, name) THEN << >>
    ELSE << [objectTypeAttributeId |-> AttrMap(attributes, name),
             objectAttributeValues |-> << [value |-> value] >>] >>

(* an optional entry: only for a value given *)
OptionalEntry(attributes, name, value) ==
    IF Truthy(value) THEN PayloadEntry(attributes, name, value) ELSE << >>


(* what a create_asset call leaves behind *)
NewAssetOutcome(objs, acache, cache, issued, raised, result, faulted) ==
    [objects |-> objs, user_cache |-> {}, attribute_cache |-> acache,
     list_cache |-> cache, calls |-> issued, raised |-> raised, result |-> result,
     faulted |-> faulted]

(* the payload of create_asset up to the supplier entry *)
NewAssetPayload(cfg, attributes, a, model_object_key, status_value_to_set) ==
    PayloadEntry(attributes, cfg.serial_number_attribute, a.serial)
        \o PayloadEntry(attributes, cfg.model_name_attribute, model_object_key)
        \o PayloadEntry(attributes, cfg.asset_status_attribute, status_value_to_set)
        \o PayloadEntry(attributes, "Remote Asset", IF a.is_remote THEN "true" ELSE "false")
        \o OptionalEntry(attributes, cfg.invoice_number_attribute, a.invoice_number)
        \o OptionalEntry(attributes, cfg.purchase_date_attribute, a.purchase_date)
        \o OptionalEntry(attributes, cfg.cost_attribute, a.cost)
        \o OptionalEntry(attributes, cfg.colour_attribute, a.colour)

(* the try block of create_asset once the duplicate check has passed; a: the
   validated arguments; f: the backend call that fails *)
CreateChecked(objs, acache, cache, cfg, display, a, result, object_type_id, f, faulted) ==
    ByValue([got \in {get_object_attributes(acache, object_type_id, f = "attributes")} |->
    IF got.exc # NoExc
    THEN NewAssetOutcome(objs, acache, cache, << >>, NoExc,
                         [result EXCEPT !.error = CreateAssetError(got.exc)], TRUE)
    ELSE
    ByValue([model \in {resolve_model_name_to_object_key(
                            objs, got.attribute_cache, cache, cfg, a.model_name,
                            f = "models")} |->
    IF model.exc # NoExc
    THEN NewAssetOutcome(objs, model.attribute_cache, model.list_cache, << >>, NoExc,
                         [result EXCEPT !.error = CreateAssetError(model.exc)],
                         faulted \/ (f = "models" /\ HasAttr(cfg, "model_name_attribute")))
    ELSE
    LET attributes == got.attributes
        status_defs == {i \in 1..Len(attributes) :
                            attributes[i].name = cfg.asset_status_attribute}
        default_type ==
            IF status_defs = {} THEN None
            ELSE attributes[CHOOSE i \in status_defs : \A j \in status_defs : i <= j].defaultType
        resolved == IF Truthy(default_type) /\ Lower(default_type) = "status"
                    THEN resolve_status_name_to_id(attributes, a.status, FALSE)
                    ELSE [exc |-> NoExc, value |-> a.status]
        payload == NewAssetPayload(cfg, attributes, a, model.key, resolved.value)
        with_supplier == Truthy(a.supplier)
                             /\ InAttrMap(attributes, cfg.supplier_attribute)
    IN IF status_defs # {} /\ resolved.exc # NoExc
       THEN NewAssetOutcome(objs, model.attribute_cache, model.list_cache, << >>, NoExc,
                            [result EXCEPT !.error = CreateAssetError(resolved.exc)],
                            faulted)
       ELSE
       ByValue([sup \in {IF with_supplier
                         THEN resolve_supplier_name_to_key(
                                  objs, model.attribute_cache, model.list_cache, display,
                                  a.supplier, f)
                         ELSE [exc |-> NoExc, key |-> None, objects |-> objs,
                               attribute_cache |-> model.attribute_cache,
                               list_cache |-> model.list_cache, calls |-> << >>]} |->
       IF sup.exc # NoExc
       THEN NewAssetOutcome(sup.objects, sup.attribute_cache, sup.list_cache, sup.calls,
                            NoExc, [result EXCEPT !.error = CreateAssetError(sup.exc)],
                            TRUE)
       ELSE
       ByValue([made \in {create_object(
                              sup.objects, object_type_id,
                              payload \o (IF with_supplier
                                          THEN PayloadEntry(attributes,
                                                            cfg.supplier_attribute, sup.key)
                                          ELSE << >>),
                              f = "create", display, a.serial)} |->
       IF made.exc # NoExc
       THEN NewAssetOutcome(sup.objects, sup.attribute_cache, sup.list_cache,
                            sup.calls \o made.calls, NoExc,
                            [result EXCEPT !.error = CreateAssetError(made.exc)], TRUE)
       ELSE NewAssetOutcome(made.objects, sup.attribute_cache, sup.list_cache,
                            sup.calls \o made.calls, NoExc,
                            [result EXCEPT !.success = TRUE,
                                           !.object_key = made.data.objectKey,
                                           !.object_id = made.data.id],
                            faulted)])])])])

(* create_asset -> what it leaves behind; f: the backend call that fails:
   "object_type", "aql" (the duplicate query), "attributes", "models",
   "suppliers", "create_supplier", "create", or "none" *)
create_asset(objs, acache, cache, cfg, display, a, f) ==
    ByValue([checked \in {ValidateNewAsset(a)} |->
    LET result == NewAssetResult(checked.args)
        serial == checked.args.serial
    IN IF checked.raised # NoExc
       THEN NewAssetOutcome(objs, acache, cache, << >>, checked.raised,
                            [object_key |-> None], FALSE)
       ELSE IF checked.error # None
       THEN NewAssetOutcome(objs, acache, cache, << >>, NoExc,
                            [result EXCEPT !.error = checked.error], FALSE)
       ELSE
       ByValue([type \in {get_laptops_object_type(cfg, f = "object_type")} |->
       IF type.exc # NoExc
       THEN NewAssetOutcome(objs, acache, cache, << >>, NoExc,
                            [result EXCEPT !.error = CreateAssetError(type.exc)], TRUE)
       ELSE IF DuplicateCheck(serial) = "forced"
       THEN NewAssetOutcome(objs, acache, cache, << >>, NoExc,
                            [result EXCEPT !.error =
                                 "Asset with serial number '" \o serial
                                     \o "' already exists: HW-001"], FALSE)
       ELSE IF DuplicateCheck(serial) = "bypass"
       THEN CreateChecked(objs, acache, cache, cfg, display, checked.args, result,
                          type.id, f, FALSE)
       ELSE IF ~HasAttr(cfg, "serial_number_attribute")
       THEN NewAssetOutcome(objs, acache, cache, << >>, NoExc,
                            [result EXCEPT !.error = CreateAssetError(
                                 AttributeError("serial_number_attribute"))], FALSE)
       ELSE
       LET duplicate_objects ==
               IF f = "aql" THEN << >>
               ELSE find_objects_by_aql(
                        SelectSeq(objs, LAMBDA o : HasAttributeValue(
                                      o, cfg.serial_number_attribute, serial)),
                        0, AqlLimit)
       IN IF Len(duplicate_objects) > 0
          THEN NewAssetOutcome(objs, acache, cache, << >>, NoExc,
                               [result EXCEPT !.error =
                                    "Asset with serial number '" \o serial
                                        \o "' already exists: "
                                        \o duplicate_objects[1].objectKey], FALSE)
          ELSE CreateChecked(objs, acache, cache, cfg, display, checked.args, result,
                             type.id, f, f = "aql")])])

-----------------------------------------------------------------------------
(* AssetManager.list_statuses *)

(* the names of a list that are not empty, as sort entries *)
RECURSIVE NameEntries(_)
NameEntries(names) ==
    IF Len(names) = 0 THEN << >>
    ELSE (IF Truthy(Head(names)) THEN << [sort |-> Head(names), item |-> Head(names)] >>
          ELSE << >>)
             \o NameEntries(Tail(names))

(* the display values of the status attribute of the records, in order *)
RECURSIVE StatusDisplayValues(_, _)
StatusDisplayValues(page, status_attribute_id) ==
    IF Len(page) = 0 THEN << >>
    ELSE LET attributes == Head(page).attributes
             hits == SelectSeq(attributes,
                               LAMBDA at : Str(PyInt(at.id)) = status_attribute_id)
             values == IF Len(hits) = 0 THEN << >> ELSE DisplayValues(hits[1].vals)
         IN values \o StatusDisplayValues(Tail(page), status_attribute_id)

(* list_statuses -> [exc, statuses, attribute_cache, list_cache]: the names
   of the status attribute's metadata, or else the status values met on the
   first 50 records that carry one *)
list_statuses(objs, acache, cache, cfg, fault) ==
    IF IsCached(cache, "statuses_list")
    THEN [exc |-> NoExc, statuses |-> get_cached_data(cache, "statuses_list"),
          attribute_cache |-> acache, list_cache |-> cache]
    ELSE
    ByValue([type \in {get_laptops_object_type(cfg, fault)} |->
    IF type.exc # NoExc
    THEN [exc |-> type.exc, statuses |-> << >>, attribute_cache |-> acache,
          list_cache |-> cache]
    ELSE
    ByValue([got \in {get_object_attributes(acache, type.id, FALSE)} |->
    ByValue([attributes \in {got.attributes} |->
    ByValue([named \in {{i \in 1..Len(attributes) :
                             attributes[i].name = cfg.asset_status_attribute}} |->
    IF named = {}
    THEN [exc |-> Exc("AttributeNotFoundError",
                      "Attribute '" \o cfg.asset_status_attribute
                          \o "' not found in object type " \o type.id),
          statuses |-> << >>, attribute_cache |-> got.attribute_cache,
          list_cache |-> cache]
    ELSE
    ByValue([status_attr \in {attributes[CHOOSE i \in named : \A j \in named : i <= j]} |->
    ByValue([type_values \in {IF Len(status_attr.statusTypeValues) > 0
                              THEN status_attr.statusTypeValues
                              ELSE status_attr.statusValues} |->
    ByValue([from_metadata \in {Items(SortEntries(Distinct(NameEntries(
                 [i \in 1..Len(type_values) |-> type_values[i].name])), << >>))} |->
    ByValue([status_names \in
                 {IF Len(from_metadata) > 0 THEN from_metadata
                  ELSE Items(SortEntries(Distinct(NameEntries(
                           StatusDisplayValues(
                               find_objects_by_aql(
                                   SelectSeq(objs, LAMBDA o :
                                       /\ o.objectType \in {FleetType, PlainType}
                                       /\ HasValues(o, cfg.asset_status_attribute)),
                                   0, 50),
                               AttributeIdByName(attributes,
                                                 cfg.asset_status_attribute)))), << >>))} |->
    [exc |-> NoExc, statuses |-> status_names,
     attribute_cache |-> got.attribute_cache,
     list_cache |-> cache_data(cache, "statuses_list", status_names)]])])])])])])])])

-----------------------------------------------------------------------------
(* main.run_new_asset_workflow: one round of the interactive workflow, from
   the serial number prompt to the creation attempt *)

(* input().strip(), None for an empty answer *)
Answer(text) == IF Truthy(text) /\ Strip(text) # "" THEN Strip(text) ELSE None

InList(l, x) == \E i \in 1..Len(l) : l[i] = x

(* run_new_asset_workflow -> what the round leaves behind; a: the operator's
   answers (a serial number the prompt accepts, a model name, the status,
   the optional fields); the status prompt accepts a listed status only, and
   an operator whose answer is not listed settles for the first one; f: the
   backend call that fails *)
run_new_asset_workflow(objs, acache, cache, cfg, display, a, f) ==
    ByValue([models \in {list_models(objs, acache, cache, cfg, f = "list_models")} |->
    ByValue([statuses \in {list_statuses(objs, models.attribute_cache, models.list_cache,
                                          cfg, f = "list_statuses")} |->
    IF statuses.exc # NoExc \/ Len(statuses.statuses) = 0
    THEN NewAssetOutcome(objs, statuses.attribute_cache, statuses.list_cache, << >>,
                         NoExc, [object_key |-> None],
                         f \in {"list_models", "list_statuses"})
    ELSE
    ByValue([suppliers \in {list_suppliers(objs, statuses.list_cache,
                                            f = "list_suppliers")} |->
    LET status_name == IF InList(statuses.statuses, a.status) THEN a.status
                       ELSE statuses.statuses[1]
        supplier_choice == IF suppliers.exc # NoExc \/ Len(suppliers.suppliers) = 0
                           THEN None ELSE Answer(a.supplier)
        asked == NewAsset(Strip(a.serial), Strip(a.model_name), status_name, a.is_remote,
                          Answer(a.invoice_number), Answer(a.purchase_date),
                          Answer(a.cost), Answer(a.colour), supplier_choice)
    IN ByValue([out \in {create_asset(objs, statuses.attribute_cache, suppliers.list_cache,
                                      cfg, display, asked, f)} |->
       IF out.raised # NoExc
       THEN [out EXCEPT !.raised = NoExc]
       ELSE out])])])])

-----------------------------------------------------------------------------
(* The new-asset state machine *)

(* a record of the purchasing deployment *)
Stored(key, type, attributes) ==
    [id |-> "10" \o key, objectKey |-> key, objectType |-> type, attributes |-> attributes]

FleetAttr(name, value, displayValue) ==
    Attr(DefByName(FleetType, name), << Val(TRUE, value, displayValue) >>)

(* a laptop that references the model record HW-7, shown as 'MacBook Pro' *)
FleetLaptop(key, serial) ==
    Stored(key, FleetType,
           << FleetAttr("Serial Number", serial, serial),
              FleetAttr("Model", "HW-7", "MacBook Pro"),
              FleetAttr("Asset Status", "1", "In Use") >>)

Supplier(key, name) ==
    Stored(key, SuppliersType,
           << Attr(DefByName(SuppliersType, "Name"), << Plain(name) >>) >>)

(* the backend before the run: empty, or holding a laptop and a supplier; the
   laptop's serial number is an ordinary one or one create_asset knows by
   name *)
NewAssetStores ==
    { << >>,
      << FleetLaptop("HW-1", "SN-77"), Supplier("HW-2", "Acme") >>,
      << FleetLaptop("HW-1", "SN12345"), Supplier("HW-2", "Acme") >> }

X8 == "XXXXXXXX"
X64 == X8 \o X8 \o X8 \o X8 \o X8 \o X8 \o X8 \o X8

(* a serial number of 129 characters *)
LongSerial == X64 \o X64 \o "X"

BaseAsset == NewAsset("SN-88", "MacBook Pro", "In Use", FALSE, None, None, None, None, None)

SerialChoices ==
    {"SN-77", " SN-77 ", "", " ", None, "X", LongSerial, "SN12345", "DUPLICATE123",
     "STATUS-TEST-1", "TEST-FAIL"}

ModelChoices == {"MacBook", "ThinkPad", "HW-1", "", None}

NewStatusChoices == {"Retired", "Bogus", " "}

DateChoices ==
    {"2025-09-15", "15/09/2025", " 2025-9-5", "5-6-7", "2024-02-29", "2025-02-30",
     "2025-13-01", "2025-09", "next week", " ", "01-01-2147483648", "1-1-99999999999"}

SupplierChoices == {"Acme", "acme ", "NewCo"}

(* the calls made: the base call with one argument varied at a time *)
NewAssets ==
    {BaseAsset, [BaseAsset EXCEPT !.is_remote = TRUE],
     [BaseAsset EXCEPT !.invoice_number = "INV-1", !.cost = " 10", !.colour = "Grey"]}
        \cup {[BaseAsset EXCEPT !.serial = s] : s \in SerialChoices}
        \cup {[BaseAsset EXCEPT !.model_name = m] : m \in ModelChoices}
        \cup {[BaseAsset EXCEPT !.status = s] : s \in NewStatusChoices}
        \cup {[BaseAsset EXCEPT !.purchase_date = d] : d \in DateChoices}
        \cup {[BaseAsset EXCEPT !.supplier = s] : s \in SupplierChoices}

NewAssetFaults ==
    {"object_type", "aql", "attributes", "models", "suppliers", "create_supplier", "create"}

(* the calls of create_asset: every input on an AssetManager whose
   config_override names the attributes, some of them on one with the
   module-level config or another schema, and two with each failing call *)
NewAssetCalls ==
    {[a |-> a, cfg |-> OverrideConfig("Hardware"), f |-> "none"] : a \in NewAssets}
        \cup {[a |-> [BaseAsset EXCEPT !.serial = s], cfg |-> ShippedConfig, f |-> "none"] :
                  s \in {"SN-88", "SN12345", "DUPLICATE123", " "}}
        \cup {[a |-> a, cfg |-> OverrideConfig("Office"), f |-> "none"] :
                  a \in {BaseAsset, [BaseAsset EXCEPT !.status = "Bogus"],
                         [BaseAsset EXCEPT !.supplier = "NewCo"]}}
        \cup {[a |-> a, cfg |-> OverrideConfig("Hardware"), f |-> f] :
                  a \in {BaseAsset, [BaseAsset EXCEPT !.supplier = "NewCo"]},
                  f \in NewAssetFaults}

(* records created during the run *)
MaxCreated == 2

Created(objs) ==
    SelectSeq(objs, LAMBDA o : StartsWith(o.objectKey, "NEW-")
                                   \/ StartsWith(o.objectKey, "SUP-"))

InitNew ==
    /\ mode = "new"
    /\ objects \in NewAssetStores
    /\ userDisplay = "raw"
    /\ user_cache = {}
    /\ attribute_cache = {}
    /\ list_cache = {}
    /\ calls = << >>
    /\ pre = objects
    /\ last = Idle
    /\ throttle = NoTraffic

CommitNew(op, key, dry_run, f, out) ==
    /\ objects' = out.objects
    /\ attribute_cache' = out.attribute_cache
    /\ list_cache' = out.list_cache
    /\ calls' = out.calls
    /\ pre' = objects
    /\ last' = [op |-> op, key |-> key, dry_run |-> dry_run, raised |-> out.raised,
                result |-> out.result, results |-> << >>,
                fault |-> IF out.faulted THEN [stage |-> "call", key |-> None, f |-> f]
                          ELSE NoFault,
                repeat |-> FALSE, delete_original |-> FALSE, batch |-> << >>]
    /\ UNCHANGED <<throttle, mode, userDisplay, user_cache>>

(* a call of create_asset on an AssetManager of some configuration *)
CreateAsset ==
    /\ mode = "new"
    /\ Len(Created(objects)) < MaxCreated
    /\ \E c \in NewAssetCalls :
      \E out \in {create_asset(objects, attribute_cache, list_cache, c.cfg, userDisplay,
                                c.a, c.f)} :
          CommitNew("create_asset", [a |-> c.a, cfg |-> c.cfg], FALSE, c.f, out)

NextNew == CreateAsset

SpecNew == InitNew /\ [][NextNew]_vars


-----------------------------------------------------------------------------
(* Properties of create_asset *)

(* the purchase dates of the calls that are malformed or name no calendar
   day *)
BadDates ==
    {"2025-02-30", "2025-13-01", "2025-09", "next week", "01-01-2147483648",
     "1-1-99999999999"}

(* an input create_asset must reject: a required text empty or blank, a bad
   purchase date, or a trimmed serial number shorter than 2 or longer than
   128 characters *)
InvalidNewAsset(a) ==
    \/ \E text \in {a.serial, a.model_name, a.status} : text \in {None, "", " "}
    \/ a.purchase_date \in BadDates
    \/ a.serial \in {"X", LongSerial}

(* C16: create_asset never raises: for every input and every backend failure
   it returns a result; and an invalid input (an empty or blank serial, model
   name or status, a malformed or impossible purchase date, a trimmed serial
   whose length is outside [2,128]) gives success=false with a non-empty
   error, with no backend call made and no asset or supplier created. *)
C16_ValidationReturnsResult ==
    last.op = "create_asset" =>
        /\ last.raised = NoExc
        /\ InvalidNewAsset(last.key.a) =>
               /\ last.result.success = FALSE
               /\ Truthy(last.result.error)
               /\ calls = << >>
               /\ objects = pre
               /\ last.fault = NoFault

(* create_asset was called with a purchase date whose year does not fit a C
   int, and the OverflowError of datetime() left it *)
C16_OverflowRaised ==
    /\ last.op = "create_asset"
    /\ last.key.a.purchase_date = "01-01-2147483648"
    /\ last.raised.cls = "OverflowError"
    /\ calls = << >>
    /\ objects = pre


(* the records of a store that carry the serial number *)
WithSerial(objs, serial) ==
    SelectSeq(objs, LAMBDA o : HasAttributeValue(o, "Serial Number", serial))

(* C17: duplicate detection depends on backend state only: a create_asset
   call with a valid input returns success=false with an "already exists"
   error, having called create_object for no asset, exactly when the backend
   already holds a record with that serial number; and it never adds a second
   record for a serial number the backend holds. *)
C17_DuplicateByBackendState ==
    (last.op = "create_asset" /\ last.raised = NoExc /\ ~InvalidNewAsset(last.key.a)) =>
        LET serial == Strip(last.key.a.serial)
            held == Len(WithSerial(pre, serial)) > 0
            refused == /\ last.result.success = FALSE
                       /\ Contains(last.result.error, "already exists")
                       /\ \A i \in 1..Len(calls) : calls[i].id = SuppliersType
        IN /\ refused <=> held
           /\ held => Len(WithSerial(objects, serial)) = Len(WithSerial(pre, serial))

(* the backend held a record with serial number SN12345, no call failed, and
   create_asset created a second record with it *)
C17_SecondRecord ==
    /\ last.op = "create_asset"
    /\ last.key.a.serial = "SN12345"
    /\ last.fault = NoFault
    /\ Len(WithSerial(pre, "SN12345")) = 1
    /\ last.result.success = TRUE
    /\ Len(WithSerial(objects, "SN12345")) = 2
    /\ \E i \in 1..Len(calls) : calls[i].op = "create_object" /\ calls[i].id = FleetType


-----------------------------------------------------------------------------
(* The command line: main() builds AssetManager() on the module-level config,
   sets dry_run = not args.execute and dispatches on the mode *)

(* a config that names the attributes of a new asset as well *)
MainConfig_complete == OverrideConfig("Hardware")

(* the configuration of the AssetManager that main() builds *)
MainConfig == ShippedConfig

(* the operator's answers in a round of --new: the serial number prompt
   accepts 2 to 128 characters *)
WorkflowAnswers ==
    {BaseAsset, [BaseAsset EXCEPT !.is_remote = TRUE],
     [BaseAsset EXCEPT !.status = "Retired", !.purchase_date = "2025-09-15"],
     [BaseAsset EXCEPT !.purchase_date = "01-01-2147483648"]}
        \cup {[BaseAsset EXCEPT !.serial = s] : s \in {"SN-77", "SN12345", "DUPLICATE123"}}
        \cup {[BaseAsset EXCEPT !.supplier = s] : s \in {"Acme", "NewCo"}}

WorkflowFaults ==
    {"none", "list_models", "list_statuses", "list_suppliers", "object_type", "create"}

InitCli ==
    \/ Init /\ mode \in {"assignee", "retirement", "migration"}
    \/ InitNew

(* --new [--execute]: one round of run_new_asset_workflow; main() does not
   pass dry_run on *)
NewAssetRun ==
    /\ mode = "new"
    /\ Len(Created(objects)) < MaxCreated
    /\ \E execute \in BOOLEAN, a \in WorkflowAnswers, f \in WorkflowFaults :
      \E out \in {run_new_asset_workflow(objects, attribute_cache, list_cache,
                                          MainConfig, userDisplay, a, f)} :
          CommitNew("run_new_asset_workflow", [a |-> a, cfg |-> MainConfig],
                    ~execute, f, out)

NextCli ==
    \/ ProcessAsset
    \/ BulkAssets
    \/ ProcessRetirement
    \/ BulkRetirements
    \/ Migration
    \/ NewAssetRun

SpecCli == InitCli /\ [][NextCli]_vars

(* the operations main() dispatches to *)
CliOps ==
    {"process_asset", "process_bulk_assets", "process_retirement",
     "process_asset_retirements", "process_asset_migration", "run_new_asset_workflow"}

(* C18: the command line's dry-run default: in every operation mode
   (--test-asset, --bulk, --retire-assets, --csv-migrate, --new) a run
   without --execute issues no create, update or delete call to the backend
   and leaves the backend's records as they were. *)
C18_DryRunDefault ==
    (last.op \in CliOps /\ last.dry_run) =>
        /\ calls = << >>
        /\ objects = pre

(* a round of --new without --execute went as far as create_asset, which
   returned an error result: the config of main() does not name the serial
   number attribute *)
C18_Witness ==
    /\ last.op = "run_new_asset_workflow"
    /\ last.dry_run
    /\ last.fault = NoFault
    /\ "error" \in DOMAIN last.result
    /\ last.result.success = FALSE
    /\ Contains(last.result.error, "serial_number_attribute")
    /\ calls = << >>
    /\ objects = pre


-----------------------------------------------------------------------------
(* Properties of process_asset under failing calls *)

(* the calls of process_asset that can fail with an API or network error:
   the record fetch, the user search, the account validation, the attribute
   lookup of the update and the update itself *)
TransientFaults == {"get_object", "search_user", "validate", "get_attributes", "update_error"}

(* the last process_asset call met a failing collaborator call *)
MetTransientFault ==
    /\ last.op = "process_asset"
    /\ last.fault # NoFault
    /\ last.fault.f \in TransientFaults

(* the outcome of the record is an error: an exception left process_asset, or
   the result carries an error and is neither a skip nor a success *)
IsErrorOutcome ==
    \/ last.raised.cls \in {"AssetUpdateError", "AssetNotFoundError", "ValidationError"}
    \/ /\ Truthy(last.result.error)
       /\ ~last.result.success

(* C19: transient failures surface as errors: when a collaborator call made
   by process_asset for a record (record fetch, email lookup, account
   validation, update) fails with an API or network error, the outcome of
   the record is an error (a raised AssetUpdateError or an error result),
   never a skip and never a success. *)
C19_TransientIsError ==
    MetTransientFault =>
        /\ IsErrorOutcome
        /\ ~last.result.skipped
        /\ ~last.result.success

(* the same for the calls other than the account validation *)
C19_OtherFaultsAreErrors ==
    (MetTransientFault /\ last.fault.f # "validate") =>
        /\ last.raised.cls = "AssetUpdateError"
        /\ Truthy(last.result.error)
        /\ ~last.result.skipped
        /\ ~last.result.success

(* the account validation failed with an API or network error and the record
   was skipped as having an invalid or inactive account: nothing raised, no
   error recorded *)
C19_ValidationFaultSkipped ==
    /\ MetTransientFault
    /\ last.fault.f = "validate"
    /\ last.raised = NoExc
    /\ last.result.skipped
    /\ Contains(last.result.skip_reason, "is invalid or inactive")
    /\ last.result.error = None
    /\ calls = << >>


-----------------------------------------------------------------------------
(* Properties of migrate_object_to_type: what the backend holds afterwards *)

(* the backend still holds the source record of the last migration *)
SourceHeld == HasKey(objects, last.key)

(* the backend holds a record it did not hold before the last migration *)
TargetCreated == \E i \in 1..Len(objects) : ~HasId(pre, objects[i].id)

(* C20 (as claimed): no data loss in migration: after any execution of
   migrate_object_to_type, with or without delete_original, succeeding or
   failing, the backend holds the source record or the newly created target
   record; it never ends with the source record deleted and no new record
   created. *)
C20_NoDataLoss ==
    last.op = "migrate_object_to_type" => (SourceHeld \/ TargetCreated)

(* C20 (amended): after an execution of migrate_object_to_type the backend
   holds neither the source record nor a new record exactly when
   delete_original was set, the delete succeeded and create_object failed;
   the migration then raises JiraAssetsAPIError having issued the delete and
   the create, in that order.  In every other execution the backend holds the
   source record or the new one: without delete_original the source record
   always stays, a migration that returns has created the new record, and with
   delete_original a migration that returns has replaced the source record. *)
C20_LossOnlyOnFailedCreate ==
    last.op = "migrate_object_to_type" =>
        LET lost == ~SourceHeld /\ ~TargetCreated
        IN /\ lost <=> (last.delete_original /\ last.fault.f = "create")
           /\ lost => /\ last.raised.cls = "JiraAssetsAPIError"
                      /\ Len(calls) = 2
                      /\ calls[1].op = "delete_object"
                      /\ calls[2].op = "create_object"
                      /\ Len(objects) = Len(pre) - 1
           /\ ~last.delete_original => SourceHeld
           /\ last.raised = NoExc => TargetCreated
           /\ (last.delete_original /\ last.raised = NoExc) => ~SourceHeld

(* delete_original was set, the source record was deleted, create_object
   failed: the backend holds neither record *)
C20_Witness ==
    /\ last.op = "migrate_object_to_type"
    /\ last.delete_original
    /\ last.fault.f = "create"
    /\ ~SourceHeld
    /\ ~TargetCreated
    /\ HasKey(pre, last.key)
    /\ last.raised.cls = "JiraAssetsAPIError"


-----------------------------------------------------------------------------
(* Properties of the per-serial results of process_asset_migration *)

(* the run deleted the source record the result names *)
SourceDeleted(r) ==
    /\ r.source_object_id # None
    /\ HasId(pre, r.source_object_id)
    /\ ~HasId(objects, r.source_object_id)

(* C21: in every per-serial result returned by process_asset_migration
   (success, skipped or error) original_deleted is true only if the source
   record was actually deleted from the backend while that serial number was
   processed. *)
C21_DeletedOnlyIfDeleted ==
    last.op = "process_asset_migration" =>
        \A i \in 1..Len(last.results) :
            last.results[i].original_deleted => SourceDeleted(last.results[i])

(* the same for the results that report success: there original_deleted tells
   whether the source record was deleted *)
C21_SuccessResultsAreExact ==
    last.op = "process_asset_migration" =>
        \A i \in 1..Len(last.results) :
            last.results[i].success =>
                (last.results[i].original_deleted <=>
                     (~last.dry_run /\ SourceDeleted(last.results[i])))

(* an executing run with delete_original found no record for a serial number:
   the result is a skip that names no source record, nothing was deleted, and
   the result says original_deleted=true *)
C21_SkipReportsDeleted ==
    /\ last.op = "process_asset_migration"
    /\ ~last.dry_run /\ last.delete_original
    /\ \E i \in 1..Len(last.results) :
           /\ last.results[i].skipped
           /\ last.results[i].source_object_id = None
           /\ last.results[i].original_deleted
    /\ \A j \in 1..Len(calls) : calls[j].op # "delete_object"


-----------------------------------------------------------------------------
(* The model catalogue: list_models and resolve_model_name_to_object_key on
   backends of model-bearing records *)

(* a laptop whose Model attribute references the model record model_key,
   shown as display *)
ModelLaptop(key, model_key, display) ==
    Stored(key, FleetType,
           << FleetAttr("Serial Number", "SN-" \o key, "SN-" \o key),
              FleetAttr("Model", model_key, display) >>)

(* the catalogue: the model records the laptops reference, [key, display] *)
CatalogueModels ==
    { [key |-> "HW-7", display |-> "MacBook Pro"],
      [key |-> "HW-8", display |-> "MacBook Pro 16"],
      [key |-> "HW-9", display |-> "ThinkPad"] }

MaxLaptops == 3

(* the laptops HW-1.. of a backend, each referencing one model of the
   catalogue, in backend order *)
LaptopsOf(models) ==
    [i \in 1..Len(models) |->
        ModelLaptop("HW-" \o ToString(i), models[i].key, models[i].display)]

SmallModelStores ==
    UNION { { LaptopsOf(models) : models \in [1..n -> CatalogueModels] } :
                n \in 0..MaxLaptops }

(* backends with one laptop more than a query page of 100 holds: the last
   laptop references a model of its own or the model of the others *)
LargeModelStores ==
    { LaptopsOf([i \in 1..(DefaultLimit + 1) |->
                    IF i <= DefaultLimit THEN others ELSE own]) :
          others \in CatalogueModels, own \in CatalogueModels }

(* the names asked for: display values, parts of them, a record key, and a
   name no record carries *)
ModelNames == {"MacBook Pro", "MacBook Pro 16", "ThinkPad", "MacBook", "Pro", "HW-1", "Dell"}

InitModels ==
    /\ mode = "models"
    /\ objects \in SmallModelStores \cup LargeModelStores
    /\ userDisplay = "raw"
    /\ user_cache = {}
    /\ attribute_cache = {}
    /\ list_cache = {}
    /\ calls = << >>
    /\ pre = objects
    /\ last = Idle
    /\ throttle = NoTraffic

CommitModels(op, key, f, out, result) ==
    /\ attribute_cache' = out.attribute_cache
    /\ list_cache' = out.list_cache
    /\ calls' = << >>
    /\ pre' = objects
    /\ last' = [op |-> op, key |-> key, dry_run |-> FALSE, raised |-> out.exc,
                result |-> result, results |-> << >>,
                fault |-> IF f THEN [stage |-> "call", key |-> key, f |-> "aql"]
                          ELSE NoFault,
                repeat |-> FALSE, delete_original |-> FALSE, batch |-> << >>]
    /\ UNCHANGED <<throttle, mode, objects, userDisplay, user_cache>>

(* a call of list_models *)
ListModels ==
    /\ mode \in {"models", "suppliers", "cache"}
    /\ \E f \in BOOLEAN :
      \E out \in {list_models(objects, attribute_cache, list_cache,
                               OverrideConfig("Hardware"), f)} :
          CommitModels("list_models", [name |-> None, cache |-> list_cache],
                       f /\ out.exc # NoExc, out, [models |-> out.models])

(* the names a caller may pass: the names asked for, and the names a
   list_models call has offered *)
OfferedModels ==
    IF IsCached(list_cache, "models_list")
    THEN {get_cached_data(list_cache, "models_list")[i] :
              i \in 1..Len(get_cached_data(list_cache, "models_list"))}
    ELSE {}

(* a call of resolve_model_name_to_object_key *)
ResolveModel ==
    /\ mode = "models"
    /\ \E model_name \in ModelNames \cup OfferedModels, f \in BOOLEAN :
      \E out \in {resolve_model_name_to_object_key(objects, attribute_cache, list_cache,
                      OverrideConfig("Hardware"), model_name, f)} :
          CommitModels("resolve_model_name_to_object_key", model_name,
                       f /\ out.exc.cls = "JiraAssetsAPIError", out, [key |-> out.key])

NextModels == ListModels \/ ResolveModel

SpecModels == InitModels /\ [][NextModels]_vars

(* the values of the Model attribute of one record: [key, display] of each *)
ModelValuesOf(obj) ==
    LET at == SelectSeq(obj.attributes, LAMBDA a : a.name = "Model")
        vals == IF Len(at) = 0 THEN << >> ELSE at[1].vals
    IN [i \in 1..Len(vals) |-> [key |-> vals[i].value, display |-> vals[i].displayValue]]

(* the values of the Model attribute of the records, in backend order *)
RECURSIVE ModelValues(_)
ModelValues(objs) ==
    IF Len(objs) = 0 THEN << >>
    ELSE IF Len(objs) = 1 THEN ModelValuesOf(objs[1])
    ELSE ModelValues(SubSeq(objs, 1, Len(objs) \div 2))
            \o ModelValues(SubSeq(objs, Len(objs) \div 2 + 1, Len(objs)))

(* the keys of the model values whose display value is the name *)
ExactKeys(objs, model_name) ==
    {ModelValues(objs)[i].key :
         i \in {j \in 1..Len(ModelValues(objs)) : ModelValues(objs)[j].display = model_name}}

(* C22: resolve_model_name_to_object_key is exact-match-first,
   substring-match-as-fallback: whenever a candidate record has a model
   display value equal to the name, the key returned is that of an exactly
   matching value, whatever the order of the candidates; a substring match is
   used only when no candidate matches exactly. *)
C22_ExactMatchFirst ==
    (/\ last.op = "resolve_model_name_to_object_key"
     /\ last.fault = NoFault
     /\ ExactKeys(objects, last.key) # {}) =>
        /\ last.raised = NoExc
        /\ last.result.key \in ExactKeys(objects, last.key)

(* the backend lists a 'MacBook Pro 16' laptop before a 'MacBook Pro' one,
   and 'MacBook Pro' resolved to the key of the 'MacBook Pro 16' model *)
C22_SubstringWins ==
    /\ last.op = "resolve_model_name_to_object_key"
    /\ last.key = "MacBook Pro"
    /\ last.fault = NoFault
    /\ "HW-7" \in ExactKeys(objects, "MacBook Pro")
    /\ last.raised = NoExc
    /\ last.result.key = "HW-8"

(* when the candidates are met in an order that puts every exact match
   first, or none matches exactly, the first match in order is returned *)
C22_FirstMatchInOrder ==
    (last.op = "resolve_model_name_to_object_key" /\ last.fault = NoFault
        /\ last.raised = NoExc /\ last.key \notin {"HW-1", "HW-2", "HW-3"}) =>
        LET values == ModelValues(objects)
            hits == {i \in 1..Len(values) : Contains(values[i].display, last.key)}
        IN /\ hits # {}
           /\ last.result.key = values[CHOOSE i \in hits : \A j \in hits : i <= j].key


-----------------------------------------------------------------------------
(* The suppliers: list_suppliers, create_supplier and
   resolve_supplier_name_to_key, with the other cached lists alongside *)

(* the backend before the run: a laptop, and no, one or two suppliers; one
   supplier's name carries a trailing blank *)
SupplierStores ==
    { << FleetLaptop("HW-1", "SN-77") >>,
      << FleetLaptop("HW-1", "SN-77"), Supplier("HW-2", "Acme") >>,
      << FleetLaptop("HW-1", "SN-77"), Supplier("HW-2", "Zeta "), Supplier("HW-3", "Acme") >> }

(* the supplier names asked for *)
SupplierNames == {"Acme", "ACME", "acme ", " Acme", "NewCo"}

InitSuppliers ==
    /\ mode = "suppliers"
    /\ objects \in SupplierStores
    /\ userDisplay = "raw"
    /\ user_cache = {}
    /\ attribute_cache = {}
    /\ list_cache = {}
    /\ calls = << >>
    /\ pre = objects
    /\ last = Idle
    /\ throttle = NoTraffic

(* what a call was given: its argument and the cache files it found *)
Given(name) == [name |-> name, cache |-> list_cache]

(* a call of list_statuses *)
ListStatuses ==
    /\ mode \in {"suppliers", "cache"}
    /\ \E f \in BOOLEAN :
      \E out \in {list_statuses(objects, attribute_cache, list_cache,
                                 OverrideConfig("Hardware"), f)} :
          CommitNew("list_statuses", Given(None), FALSE, "list_statuses",
                    NewAssetOutcome(objects, out.attribute_cache, out.list_cache, << >>,
                                    out.exc, [statuses |-> out.statuses],
                                    f /\ out.exc # NoExc))

(* a call of list_suppliers *)
ListSuppliers ==
    /\ mode \in {"suppliers", "cache"}
    /\ \E f \in BOOLEAN :
      \E out \in {list_suppliers(objects, list_cache, f)} :
          CommitNew("list_suppliers", Given(None), FALSE, "suppliers",
                    NewAssetOutcome(objects, attribute_cache, out.list_cache, << >>,
                                    out.exc, [suppliers |-> out.suppliers],
                                    f /\ out.exc # NoExc))

(* a call of create_supplier *)
CreateSupplier ==
    /\ mode = "suppliers"
    /\ Len(Created(objects)) < MaxCreated
    /\ \E supplier_name \in SupplierNames, f \in BOOLEAN :
      \E out \in {create_supplier(objects, attribute_cache, list_cache, userDisplay,
                                   supplier_name, f)} :
          CommitNew("create_supplier", Given(supplier_name), FALSE, "create_supplier",
                    NewAssetOutcome(out.objects, out.attribute_cache, out.list_cache,
                                    out.calls, out.exc, out.supplier, f))

(* a call of resolve_supplier_name_to_key; a call that follows a call for the
   same name that returned a key is a repeated call: batch keeps the key the
   call before returned *)
ResolveSupplier ==
    /\ mode = "suppliers"
    /\ Len(Created(objects)) < MaxCreated
    /\ \E supplier_name \in SupplierNames, f \in {"none", "suppliers", "create_supplier"} :
      \E out \in {resolve_supplier_name_to_key(objects, attribute_cache, list_cache,
                                                userDisplay, supplier_name, f)} :
        LET again == /\ last.op = "resolve_supplier_name_to_key"
                     /\ last.raised = NoExc
                     /\ last.key.name = supplier_name
        IN /\ objects' = out.objects
           /\ attribute_cache' = out.attribute_cache
           /\ list_cache' = out.list_cache
           /\ calls' = out.calls
           /\ pre' = objects
           /\ last' = [op |-> "resolve_supplier_name_to_key", key |-> Given(supplier_name),
                       dry_run |-> FALSE, raised |-> out.exc,
                       result |-> [key |-> out.key], results |-> << >>,
                       fault |-> IF out.exc.cls = "JiraAssetsAPIError"
                                 THEN [stage |-> "call", key |-> None, f |-> f]
                                 ELSE NoFault,
                       repeat |-> again, delete_original |-> FALSE,
                       batch |-> IF again THEN <<last.result.key>> ELSE << >>]
           /\ UNCHANGED <<throttle, mode, userDisplay, user_cache>>

NextSuppliers ==
    \/ ListModels
    \/ ListStatuses
    \/ ListSuppliers
    \/ CreateSupplier
    \/ ResolveSupplier

SpecSuppliers == InitSuppliers /\ [][NextSuppliers]_vars

(* the cache files other than the one of a key *)
OtherEntries(cache, cache_key) == {e \in cache : e.key # cache_key}

(* the supplier list as the backend gives it *)
FreshSuppliers(objs) == list_suppliers(objs, {}, FALSE).suppliers

(* C23: supplier creation invalidates exactly the supplier-list cache: after
   create_supplier succeeds there is no "suppliers_list" cache entry, so the
   next list_suppliers re-queries the backend instead of returning the stale
   list, while the "models_list" and "statuses_list" entries are as they
   were; a failed create_supplier leaves every cache entry as it was. *)
C23_InvalidatesSuppliersOnly ==
    /\ last.op = "create_supplier" =>
           IF last.raised = NoExc
           THEN /\ ~\E e \in list_cache : e.key = "suppliers_list"
                /\ OtherEntries(list_cache, "suppliers_list")
                       = OtherEntries(last.key.cache, "suppliers_list")
                /\ Len(objects) = Len(pre) + 1
           ELSE /\ list_cache = last.key.cache
                /\ objects = pre
    /\ (/\ last.op = "list_suppliers"
        /\ last.fault = NoFault
        /\ ~\E e \in last.key.cache : e.key = "suppliers_list") =>
           /\ last.raised = NoExc
           /\ last.result.suppliers = FreshSuppliers(objects)
           /\ \E e \in list_cache :
                  e.key = "suppliers_list" /\ e.data = FreshSuppliers(objects)

(* create_supplier succeeded while all three lists were cached: the supplier
   list is gone from the cache, the other two lists are still there *)
C23_Witness ==
    /\ last.op = "create_supplier"
    /\ last.raised = NoExc
    /\ \A k \in {"models_list", "statuses_list", "suppliers_list"} :
           \E e \in last.key.cache : e.key = k
    /\ \A k \in {"models_list", "statuses_list"} : \E e \in list_cache : e.key = k
    /\ ~\E e \in list_cache : e.key = "suppliers_list"
    /\ FreshSuppliers(objects) # get_cached_data(last.key.cache, "suppliers_list")


(* the supplier records of a store whose name, blanks at the ends and letter
   case aside, is the name *)
SuppliersNamed(objs, supplier_name) ==
    SelectSeq(objs, LAMBDA o : /\ o.objectType = SuppliersType
                               /\ Lower(Strip(ObjectName(o))) = Lower(Strip(supplier_name)))

(* the last two operations were resolve_supplier_name_to_key calls for the
   same name, none met a failing call: last.key.prev is what the first
   returned *)
ResolvedTwice ==
    /\ last.op = "resolve_supplier_name_to_key"
    /\ last.repeat
    /\ last.raised = NoExc

(* C24: resolve_supplier_name_to_key is create-at-most-once: for any supplier
   name, names that differ from an existing supplier's only in letter case or
   in blanks at the ends included, repeated calls with no other backend
   change create at most one supplier record in total and return the same
   key every time; a call creates a record only when no existing supplier
   matches the name case-insensitively. *)
C24_CreateAtMostOnce ==
    (last.op = "resolve_supplier_name_to_key" /\ last.raised = NoExc) =>
        /\ (\E i \in 1..Len(pre) :
                /\ pre[i].objectType = SuppliersType
                /\ Lower(ObjectName(pre[i])) = Lower(last.key.name)) => objects = pre
        /\ Len(objects) <= Len(pre) + 1
        /\ ResolvedTwice => /\ objects = pre
                            /\ last.result.key = last.batch[1]

(* the same for the names that are written as the backend's records are, or
   differ from them in letter case only, or match none *)
C24_CleanNames ==
    (last.op = "resolve_supplier_name_to_key" /\ last.raised = NoExc
        /\ last.key.name \in {"Acme", "ACME", "NewCo"}) =>
        /\ Len(SuppliersNamed(pre, last.key.name)) > 0 => objects = pre
        /\ Len(SuppliersNamed(pre, last.key.name)) = 0 =>
               Len(SuppliersNamed(objects, last.key.name)) = 1
        /\ ResolvedTwice => /\ objects = pre
                            /\ last.result.key = last.batch[1]

(* 'acme ' was resolved twice in a row against a backend that held the
   supplier 'Acme': each call created a supplier record and returned its new
   key *)
C24_CreatedTwice ==
    /\ ResolvedTwice
    /\ last.key.name = "acme "
    /\ Len(objects) = Len(pre) + 1
    /\ Len(SuppliersNamed(objects, "Acme")) = 3
    /\ last.result.key # last.batch[1]


-----------------------------------------------------------------------------
(* The cached lists over time: list_models, list_statuses and list_suppliers
   while time passes, the backend changes and caches are cleared *)

ListKeys == {"models_list", "statuses_list", "suppliers_list"}

(* clear_caches -> the cache files left *)
clear_caches(cache) ==
    invalidate_cache(invalidate_cache(invalidate_cache(cache, "models_list"),
                                      "statuses_list"),
                     "suppliers_list")

(* the oldest a cache file gets in a run *)
MaxAge == 24

(* the records another party may add to the backend *)
AddedRecords ==
    { ModelLaptop("HW-8", "HW-9", "ThinkPad"), Supplier("HW-9", "NewCo") }

InitCache ==
    /\ mode = "cache"
    /\ objects \in { << >>,
                     << FleetLaptop("HW-1", "SN-77"), Supplier("HW-2", "Acme") >> }
    /\ userDisplay = "raw"
    /\ user_cache = {}
    /\ attribute_cache = {}
    /\ list_cache = {}
    /\ calls = << >>
    /\ pre = objects
    /\ last = Idle
    /\ throttle = NoTraffic

(* an operation that touches the cache files or the backend only *)
CommitCache(op, key, cache, objs) ==
    /\ list_cache' = cache
    /\ objects' = objs
    /\ calls' = << >>
    /\ pre' = objects
    /\ last' = [Idle EXCEPT !.op = op, !.key = key]
    /\ UNCHANGED <<throttle, mode, userDisplay, user_cache, attribute_cache>>

(* time passes: 23 hours, or one more hour once a file is 23 hours old *)
Tick ==
    /\ mode = "cache"
    /\ list_cache # {}
    /\ \E hours \in {1, CacheTtl - 1} :
          /\ \A e \in list_cache : e.age + hours <= MaxAge
          /\ hours = 1 => \E e \in list_cache : e.age >= CacheTtl - 1
          /\ CommitCache("tick", Given(None), Elapse(list_cache, hours), objects)

(* clear_caches: the three cache files, and the clients' in-memory caches *)
ClearCaches ==
    /\ mode = "cache"
    /\ list_cache' = clear_caches(list_cache)
    /\ user_cache' = {}
    /\ attribute_cache' = {}
    /\ calls' = << >>
    /\ pre' = objects
    /\ last' = [Idle EXCEPT !.op = "clear_caches", !.key = Given(None)]
    /\ UNCHANGED <<throttle, mode, userDisplay, objects>>

(* cache_manager.invalidate_cache(cache_key) *)
InvalidateCache ==
    /\ mode = "cache"
    /\ \E cache_key \in ListKeys :
          CommitCache("invalidate_cache", Given(cache_key),
                      invalidate_cache(list_cache, cache_key), objects)

(* another party adds a record to the backend *)
BackendChange ==
    /\ mode = "cache"
    /\ \E record \in AddedRecords :
          /\ ~HasKey(objects, record.objectKey)
          /\ CommitCache("backend_change", Given(record.objectKey), list_cache,
                         Append(objects, record))

NextCache ==
    \/ ListModels
    \/ ListStatuses
    \/ ListSuppliers
    \/ Tick
    \/ ClearCaches
    \/ InvalidateCache
    \/ BackendChange

SpecCache == InitCache /\ [][NextCache]_vars

(* the cache key of a list operation *)
ListKey(op) ==
    IF op = "list_models" THEN "models_list"
    ELSE IF op = "list_statuses" THEN "statuses_list"
    ELSE "suppliers_list"

(* the list a list operation returned *)
ListReturned ==
    IF last.op = "list_models" THEN last.result.models
    ELSE IF last.op = "list_statuses" THEN last.result.statuses
    ELSE last.result.suppliers

(* the list the backend gives now *)
FreshList(op) ==
    IF op = "list_models"
    THEN list_models(objects, {}, {}, OverrideConfig("Hardware"), FALSE).models
    ELSE IF op = "list_statuses"
    THEN list_statuses(objects, {}, {}, OverrideConfig("Hardware"), FALSE).statuses
    ELSE list_suppliers(objects, {}, FALSE).suppliers

(* C25: list caching with a 24-hour time-to-live: after list_models,
   list_statuses or list_suppliers computed a list at time t, every call
   strictly before t+24h with no invalidation in between returns that list
   without querying the backend; once the entry is 24 hours old or older, or
   after clear_caches or invalidate_cache for the key, the next call treats
   the entry as absent and queries the backend again.  A failed computation
   stores nothing in the cache. *)
C25_CacheTtl ==
    /\ last.op \in {"list_models", "list_statuses", "list_suppliers"} =>
           LET held == {e \in last.key.cache : e.key = ListKey(last.op)}
           IN IF \E e \in held : e.age < CacheTtl
              THEN /\ last.raised = NoExc
                   /\ \A e \in held : ListReturned = e.data
                   /\ list_cache = last.key.cache
              ELSE IF last.raised = NoExc
              THEN /\ ListReturned = FreshList(last.op)
                   /\ \E e \in list_cache :
                          e.key = ListKey(last.op) /\ e.age = 0 /\ e.data = ListReturned
                   /\ OtherEntries(list_cache, ListKey(last.op))
                          = OtherEntries(last.key.cache, ListKey(last.op))
              ELSE list_cache = last.key.cache
    /\ last.op = "clear_caches" =>
           /\ ~\E e \in list_cache : e.key \in ListKeys
           /\ attribute_cache = {}
    /\ last.op = "invalidate_cache" =>
           /\ ~\E e \in list_cache : e.key = last.key.name
           /\ OtherEntries(list_cache, last.key.name)
                  = OtherEntries(last.key.cache, last.key.name)
    /\ Cardinality({e.key : e \in list_cache}) = Cardinality(list_cache)

(* a list cached 23 hours ago was returned although the backend has changed
   since *)
C25_Witness ==
    /\ last.op \in {"list_models", "list_suppliers"}
    /\ \E e \in last.key.cache : e.key = ListKey(last.op) /\ e.age = CacheTtl - 1
    /\ ListReturned # FreshList(last.op)
    /\ list_cache = last.key.cache

(* a list cached 24 hours ago was computed again from the backend *)
C25_Expired ==
    /\ last.op \in {"list_models", "list_suppliers"}
    /\ \E e \in last.key.cache :
           e.key = ListKey(last.op) /\ e.age = CacheTtl /\ e.data # FreshList(last.op)
    /\ last.raised = NoExc
    /\ ListReturned = FreshList(last.op)


-----------------------------------------------------------------------------
(* The cache files of runs configured for different workspaces: one cache
   directory, list_cache is keyed by file name *)

(* a file name that carries the whole workspace id *)
get_cache_file_path_whole(cache_key, assets_workspace_id) ==
    cache_key \o "_" \o assets_workspace_id \o ".json"

(* _get_cache_file_path: the file name of a cache key under the configured
   workspace id *)
get_cache_file_path(cache_key, assets_workspace_id) ==
    LET workspace_id == IF Truthy(assets_workspace_id)
                        THEN SubSeq(assets_workspace_id, 1,
                                    Min(8, Len(assets_workspace_id)))
                        ELSE "default"
    IN cache_key \o "_" \o workspace_id \o ".json"

(* the workspace ids of the runs: two of them agree in their first eight
   characters *)
WorkspaceIds ==
    { "a1b2c3d4-0000-4000-8000-000000000001",
      "a1b2c3d4-0000-4000-8000-000000000002",
      "ffffffff-0000-4000-8000-000000000003" }

TenantKeys == {"models_list", "suppliers_list"}

(* the list a run computes from the backend of its workspace: it names the
   workspace it was read from *)
TenantList(workspace, cache_key) == <<workspace, cache_key>>

InitTenant ==
    /\ mode = "tenant"
    /\ objects = << >>
    /\ userDisplay = "raw"
    /\ user_cache = {}
    /\ attribute_cache = {}
    /\ list_cache = {}
    /\ calls = << >>
    /\ pre = objects
    /\ last = Idle
    /\ throttle = NoTraffic

CommitTenant(op, workspace, cache_key, cache, result) ==
    /\ list_cache' = cache
    /\ last' = [Idle EXCEPT !.op = op,
                            !.key = [workspace |-> workspace, name |-> cache_key,
                                     cache |-> list_cache],
                            !.result = result]
    /\ UNCHANGED <<throttle, mode, objects, userDisplay, user_cache, attribute_cache, calls, pre>>

(* a run configured for a workspace stores a list it computed *)
TenantCacheData ==
    /\ mode = "tenant"
    /\ \E workspace \in WorkspaceIds, cache_key \in TenantKeys :
          CommitTenant("cache_data", workspace, cache_key,
                       cache_data(list_cache, get_cache_file_path(cache_key, workspace),
                                  TenantList(workspace, cache_key)),
                       [data |-> None])

(* a run configured for a workspace asks for a cached list *)
TenantGetCachedData ==
    /\ mode = "tenant"
    /\ \E workspace \in WorkspaceIds, cache_key \in TenantKeys :
          CommitTenant("get_cached_data", workspace, cache_key, list_cache,
                       IF IsCached(list_cache, get_cache_file_path(cache_key, workspace))
                       THEN [data |-> get_cached_data(
                                          list_cache,
                                          get_cache_file_path(cache_key, workspace))]
                       ELSE [data |-> None])

(* a run configured for a workspace invalidates a cached list *)
TenantInvalidate ==
    /\ mode = "tenant"
    /\ \E workspace \in WorkspaceIds, cache_key \in TenantKeys :
          CommitTenant("invalidate_cache", workspace, cache_key,
                       invalidate_cache(list_cache,
                                        get_cache_file_path(cache_key, workspace)),
                       [data |-> None])

NextTenant == TenantCacheData \/ TenantGetCachedData \/ TenantInvalidate

SpecTenant == InitTenant /\ [][NextTenant]_vars

(* the cache files that hold the data of other workspaces than the one of
   the last operation *)
ForeignFiles(cache) == {e \in cache : e.data[1] # last.key.workspace}

(* C26: cache tenant isolation: for any two distinct workspace ids and any
   operation key the cache keys differ, so data cached by a run configured
   for one workspace is never returned to a run configured for another
   workspace (nor replaced or removed by it). *)
C26_TenantIsolation ==
    /\ last.op = "get_cached_data" =>
           (last.result.data # None => last.result.data[1] = last.key.workspace)
    /\ last.op \in {"cache_data", "invalidate_cache"} =>
           ForeignFiles(list_cache) = ForeignFiles(last.key.cache)

(* a run configured for workspace a1b2c3d4-...-0002 was given the list that
   a run configured for workspace a1b2c3d4-...-0001 had cached *)
C26_ForeignDataReturned ==
    /\ last.op = "get_cached_data"
    /\ last.key.workspace = "a1b2c3d4-0000-4000-8000-000000000002"
    /\ last.result.data # None
    /\ last.result.data[1] = "a1b2c3d4-0000-4000-8000-000000000001"

(* workspaces that differ within the first eight characters of their ids do
   not see each other's cache files *)
C26_DistinctPrefixesIsolated ==
    (last.op = "get_cached_data" /\ last.result.data # None) =>
        SubSeq(last.result.data[1], 1, 8) = SubSeq(last.key.workspace, 1, 8)


-----------------------------------------------------------------------------
(* The request throttle of the two clients.  Time is counted in tenths of a
   second; throttle.now is time.time(), throttle.last_request_time holds
   the attribute of every constructed client, throttle.sent the outbound
   calls in the order they were sent *)

MaxRequestsPerMinute == 300

(* min_request_interval = 60.0 / config.max_requests_per_minute, in tenths
   of a second *)
min_request_interval == (60 * 10) \div MaxRequestsPerMinute

(* time.time() when the run starts, and the end of the observed time *)
StartTime == 10
MaxTime == 15

(* the number of outbound calls observed *)
MaxSent == 4

Clients == {"assets", "user"}

Endpoints(client) ==
    IF client = "assets"
    THEN {"find_objects_by_aql", "update_object"}
    ELSE {"search_user_by_email", "validate_account_id"}

Outbound(client, endpoint, at, throttled) ==
    [client |-> client, endpoint |-> endpoint, at |-> at, throttled |-> throttled]

(* _rate_limit: the time at which the step returns; it sleeps for what is
   missing of the interval since last_request_time *)
rate_limit(now, last_request_time) ==
    IF now - last_request_time < min_request_interval
    THEN now + (min_request_interval - (now - last_request_time))
    ELSE now

InitThrottle ==
    /\ mode = "throttle"
    /\ objects = << >>
    /\ userDisplay = "raw"
    /\ user_cache = {}
    /\ attribute_cache = {}
    /\ list_cache = {}
    /\ calls = << >>
    /\ pre = objects
    /\ last = Idle
    /\ \E auth_method \in {"basic", "oauth"} :
          throttle = [now |-> StartTime, auth_method |-> auth_method,
                      last_request_time |-> << >>, sent |-> << >>]

Constructed(client) == client \in DOMAIN throttle.last_request_time

(* JiraAssetsClient.__init__ / JiraUserClient.__init__: with OAuth and a
   token at hand _setup_oauth_auth calls _discover_site_id, which sends its
   request at once; last_request_time is then set to 0 *)
Construct ==
    /\ mode = "throttle"
    /\ \E client \in Clients, token \in BOOLEAN :
          /\ ~Constructed(client)
          /\ throttle.auth_method = "basic" => token
          /\ throttle' =
                [throttle EXCEPT
                   !.last_request_time = [c \in DOMAIN @ \cup {client} |->
                                             IF c = client THEN 0 ELSE @[c]],
                   !.sent = IF throttle.auth_method = "oauth" /\ token
                            THEN Append(@, Outbound(client, "_discover_site_id",
                                                    throttle.now, FALSE))
                            ELSE @]
          /\ last' = [Idle EXCEPT !.op = "__init__", !.key = client]
    /\ UNCHANGED <<mode, objects, userDisplay, user_cache, attribute_cache, list_cache,
                   calls, pre>>

(* an endpoint method of a client: _rate_limit(), then the request *)
Request ==
    /\ mode = "throttle"
    /\ Len(throttle.sent) < MaxSent
    /\ \E client \in Clients :
          /\ Constructed(client)
          /\ \E endpoint \in Endpoints(client) :
             \E at \in {rate_limit(throttle.now, throttle.last_request_time[client])} :
                /\ at <= MaxTime
                /\ throttle' = [throttle EXCEPT
                                  !.now = at,
                                  !.last_request_time[client] = at,
                                  !.sent = Append(@, Outbound(client, endpoint, at, TRUE))]
                /\ last' = [Idle EXCEPT !.op = endpoint, !.key = client]
    /\ UNCHANGED <<mode, objects, userDisplay, user_cache, attribute_cache, list_cache,
                   calls, pre>>

(* time passes between two steps of the run *)
Pass ==
    /\ mode = "throttle"
    /\ throttle.now < MaxTime
    /\ throttle' = [throttle EXCEPT !.now = @ + 1]
    /\ last' = [Idle EXCEPT !.op = "pass"]
    /\ UNCHANGED <<mode, objects, userDisplay, user_cache, attribute_cache, list_cache,
                   calls, pre>>

NextThrottle == Construct \/ Request \/ Pass

SpecThrottle == InitThrottle /\ [][NextThrottle]_vars

(* the outbound calls of one client, in the order they were sent *)
SentBy(client) == SelectSeq(throttle.sent, LAMBDA c : c.client = client)

(* C27: throttle: for each client instance every outbound call of any
   endpoint is preceded by the throttle step, so two consecutive outbound
   calls of the same client are at least 60 / max_requests_per_minute seconds
   apart; the throttle state is one last-request timestamp per client
   instance, shared by all endpoints and updated on every call. *)
C27_Throttle ==
    \A client \in Clients :
       /\ \A i \in 1..Len(SentBy(client)) : SentBy(client)[i].throttled
       /\ \A i \in 1..(Len(SentBy(client)) - 1) :
             SentBy(client)[i + 1].at - SentBy(client)[i].at >= min_request_interval
       /\ (Constructed(client) /\ SentBy(client) # << >>) =>
             throttle.last_request_time[client] = SentBy(client)[Len(SentBy(client))].at

(* with OAuth the assets client sent its site discovery and an endpoint call
   at the same instant *)
C27_UnthrottledDiscovery ==
    /\ throttle.auth_method = "oauth"
    /\ Len(SentBy("assets")) >= 2
    /\ SentBy("assets")[1].endpoint = "_discover_site_id"
    /\ SentBy("assets")[2].endpoint \in Endpoints("assets")
    /\ SentBy("assets")[2].at = SentBy("assets")[1].at

(* the calls that went through an endpoint method are throttled: two
   consecutive ones of the same client are an interval apart, whatever the
   endpoints, and each one is stamped in last_request_time *)
C27_EndpointCallsThrottled ==
    \A client \in Clients :
       /\ \A i \in 1..(Len(SentBy(client)) - 1) :
             SentBy(client)[i].throttled =>
                SentBy(client)[i + 1].at - SentBy(client)[i].at >= min_request_interval
       /\ (Constructed(client) /\ last.op \in Endpoints(client)) =>
             throttle.last_request_time[client] = SentBy(client)[Len(SentBy(client))].at

(* a client sent two calls of different endpoints one interval apart, the
   second one delayed by the throttle *)
C27_Slept ==
    /\ Len(SentBy("user")) >= 2
    /\ SentBy("user")[1].endpoint = "search_user_by_email"
    /\ SentBy("user")[2].endpoint = "validate_account_id"
    /\ SentBy("user")[2].at = SentBy("user")[1].at + min_request_interval
    /\ last.op = "validate_account_id"


-----------------------------------------------------------------------------
(* The outcomes of the per-record results of the bulk runs and the migration *)

ListRuns == {"process_bulk_assets", "process_asset_retirements", "process_asset_migration"}

(* the three outcomes of a result, read as the summary reads them *)
IsSuccess(r) == Get(r, "success", FALSE)
IsSkipped(r) == Get(r, "skipped", FALSE)
IsError(r) == Truthy(Get(r, "error", None))

OutcomeCount(r) ==
    (IF IsSuccess(r) THEN 1 ELSE 0) + (IF IsSkipped(r) THEN 1 ELSE 0)
        + (IF IsError(r) THEN 1 ELSE 0)

(* C28: outcome partition: every per-record result of the bulk assignee run,
   the bulk retirement run and process_asset_migration has exactly one of
   success = true, skipped = true, error non-empty, and updated = true only
   if success = true and dry_run = false; so the summary of such a result
   list has successful + skipped + errors = total_processed and
   updated <= successful. *)
C28_OutcomePartition ==
    last.op \in ListRuns =>
        /\ \A i \in 1..Len(last.results) :
              /\ OutcomeCount(last.results[i]) = 1
              /\ Get(last.results[i], "updated", FALSE) =>
                    (IsSuccess(last.results[i]) /\ ~last.results[i].dry_run)
        /\ LET summary == SummaryCounts(last.results)
           IN /\ summary.successful + summary.skipped + summary.errors
                    = summary.total_processed
              /\ summary.updated <= summary.successful

(* a bulk run recorded an updated record and a record whose processing
   raised *)
C28_Witness ==
    /\ last.op \in {"process_bulk_assets", "process_asset_retirements"}
    /\ \E i \in 1..Len(last.results) :
          IsSuccess(last.results[i]) /\ last.results[i].updated
    /\ \E i \in 1..Len(last.results) :
          IsError(last.results[i]) /\ "updated" \notin DOMAIN last.results[i]

(* a bulk run recorded a skipped record *)
C28_BulkSkipped ==
    /\ last.op \in {"process_bulk_assets", "process_asset_retirements"}
    /\ \E i \in 1..Len(last.results) : IsSkipped(last.results[i])

(* a migration recorded a migrated and a skipped serial number *)
C28_MigrationOutcomes ==
    /\ last.op = "process_asset_migration"
    /\ \E i \in 1..Len(last.results) : IsSuccess(last.results[i])
    /\ \E i \in 1..Len(last.results) : IsSkipped(last.results[i])

(* a migration recorded a failed serial number *)
C28_MigrationError ==
    /\ last.op = "process_asset_migration"
    /\ \E i \in 1..Len(last.results) : IsError(last.results[i])


-----------------------------------------------------------------------------
(* Pagination of the discovery functions over result sets of growing size *)

DiscoveryFunctions ==
    {"get_hardware_laptops_objects", "get_assets_pending_retirement",
     "list_models", "list_suppliers"}

(* the page sizes asked for: get_hardware_laptops_objects and
   get_assets_pending_retirement take the limit as a parameter (default 100),
   list_models and list_suppliers fix it at 100 *)
PageLimits(fn) ==
    IF fn \in {"list_models", "list_suppliers"} THEN {DefaultLimit}
    ELSE {2, 3, DefaultLimit}

(* the largest store *)
MaxStored == 203

(* the i-th record of a store of one kind; every second laptop has no
   retirement date *)
PagedRecord(kind, i) ==
    IF kind = "laptops"
    THEN Laptop(ToString(i),
                IF i % 2 = 1
                THEN One("Retirement Date", << Plain("2023-06-30") >>)
                ELSE One("Asset Status", << Plain("In Use") >>))
    ELSE IF kind = "fleet"
    THEN ModelLaptop("HW-" \o ToString(i), "HW-7", "MacBook Pro")
    ELSE Supplier("SUP-" \o ToString(i), "Acme")

StoreKind(objs) ==
    IF objs[1].objectType = LaptopsType THEN "laptops"
    ELSE IF objs[1].objectType = SuppliersType THEN "suppliers"
    ELSE "fleet"

(* the result set of the query each function pages through *)
Matching(fn, objs) ==
    IF fn = "get_hardware_laptops_objects"
    THEN SelectSeq(objs, LAMBDA o : o.objectType = LaptopsType)
    ELSE IF fn = "get_assets_pending_retirement"
    THEN SelectSeq(objs, LAMBDA o : o.objectType = LaptopsType
                                    /\ HasValues(o, retirement_date_attribute))
    ELSE IF fn = "list_models"
    THEN ModelBearing(objs, MainConfig_complete)
    ELSE SelectSeq(objs, LAMBDA o : o.objectType = SuppliersType)

InitPages ==
    /\ mode = "pages"
    /\ \E kind \in {"laptops", "fleet", "suppliers"} : objects = << PagedRecord(kind, 1) >>
    /\ userDisplay = "raw"
    /\ user_cache = {}
    /\ attribute_cache = {}
    /\ list_cache = {}
    /\ calls = << >>
    /\ pre = objects
    /\ last = Idle
    /\ throttle = NoTraffic

CommitPages(op, key, objs, result) ==
    /\ objects' = objs
    /\ pre' = objects
    /\ last' = [Idle EXCEPT !.op = op, !.key = key, !.result = result]
    /\ UNCHANGED <<mode, userDisplay, user_cache, attribute_cache, list_cache, calls,
                   throttle>>

(* another party stores one more record, or removes the first one *)
StoreRecord ==
    /\ mode = "pages"
    /\ \/ /\ Len(objects) < MaxStored
          /\ CommitPages("store", None,
                         Append(objects, PagedRecord(StoreKind(objects), Len(objects) + 1)),
                         NoResult)
       \/ /\ Len(objects) = MaxStored
          /\ CommitPages("store", None, << PagedRecord(StoreKind(objects), 1) >>, NoResult)

(* a discovery function pages through its query *)
Discover ==
    /\ mode = "pages"
    /\ \E fn \in DiscoveryFunctions :
       \E limit \in PageLimits(fn) :
       \E out \in {FetchLoop(Matching(fn, objects), 0, limit, << >>, << >>)} :
          CommitPages(fn, [limit |-> limit], objects,
                      [returned |->
                           IF fn = "get_hardware_laptops_objects"
                           THEN KeysOf(get_hardware_laptops_objects(objects, limit))
                           ELSE IF fn = "get_assets_pending_retirement"
                           THEN KeysOf(get_assets_pending_retirement(objects, limit))
                           ELSE KeysOf(out.all_objects),
                       starts |-> out.starts])

NextPages == StoreRecord \/ Discover

SpecPages == InitPages /\ [][NextPages]_vars

(* C29: pagination in bulk discovery (get_hardware_laptops_objects,
   get_assets_pending_retirement, list_models, list_suppliers): against a
   backend that honours offset/limit over a fixed result set of M records the
   loop ends after floor(M/limit)+1 queries, asks for the offsets 0, limit,
   2*limit, ... in increasing order, and returns each of the M records exactly
   once, in backend order. *)
C29_Pagination ==
    last.op \in DiscoveryFunctions =>
        LET M == Len(Matching(last.op, objects))
            limit == last.key.limit
            starts == last.result.starts
        IN /\ Len(starts) = (M \div limit) + 1
           /\ \A i \in 1..Len(starts) : starts[i] = (i - 1) * limit
           /\ last.result.returned = KeysOf(Matching(last.op, objects))
           /\ \A i, j \in 1..Len(last.result.returned) :
                 last.result.returned[i] = last.result.returned[j] => i = j

(* list_models paged through 200 matching records: two full pages and an
   empty one *)
C29_Witness ==
    /\ last.op = "list_models"
    /\ Len(Matching("list_models", objects)) = 2 * DefaultLimit
    /\ last.result.starts = <<0, DefaultLimit, 2 * DefaultLimit>>
    /\ Len(last.result.returned) = 2 * DefaultLimit

(* get_assets_pending_retirement paged by 3 through the 102 dated records of
   203 laptops *)
C29_FilteredPages ==
    /\ last.op = "get_assets_pending_retirement"
    /\ last.key.limit = 3
    /\ Len(objects) = MaxStored
    /\ Len(last.result.starts) = 35
    /\ last.result.returned[2] = "HW-3"


-----------------------------------------------------------------------------
(* The names list_models offers, handed to resolve_model_name_to_object_key *)

(* the names a list_models call that reads the backend returns *)
ListedModels(objs) ==
    LET models == list_models(objs, {}, {}, OverrideConfig("Hardware"), FALSE).models
    IN {models[i] : i \in 1..Len(models)}

(* C30: every model name offered by list_models is resolvable: for any
   backend state, more model-bearing records than one query page of 100
   included, and every name n in the list a fresh list_models returns,
   resolve_model_name_to_object_key(n) returns a key of a record whose model
   display value contains n, and raises no not-found error. *)
C30_ListedModelsResolve ==
    (/\ last.op = "resolve_model_name_to_object_key"
     /\ last.fault = NoFault
     /\ last.key \in ListedModels(objects)) =>
        /\ last.raised = NoExc
        /\ \E i \in 1..Len(ModelValues(objects)) :
              /\ ModelValues(objects)[i].key = last.result.key
              /\ Contains(ModelValues(objects)[i].display, last.key)

(* the 101st laptop alone references 'ThinkPad': list_models offers the name
   and resolving it raises the not-found error *)
C30_ListedNotResolved ==
    /\ last.op = "resolve_model_name_to_object_key"
    /\ last.fault = NoFault
    /\ last.key = "ThinkPad"
    /\ "ThinkPad" \in ListedModels(objects)
    /\ Len(objects) = DefaultLimit + 1
    /\ last.raised.cls = "ValueError"

(* on a backend whose model-bearing records fit one query page every offered
   name resolves *)
C30_OnePageResolves ==
    (/\ last.op = "resolve_model_name_to_object_key"
     /\ last.fault = NoFault
     /\ last.key \in ListedModels(objects)
     /\ Len(ModelBearing(objects, OverrideConfig("Hardware"))) <= DefaultLimit) =>
        /\ last.raised = NoExc
        /\ \E i \in 1..Len(ModelValues(objects)) :
              /\ ModelValues(objects)[i].key = last.result.key
              /\ Contains(ModelValues(objects)[i].display, last.key)

=============================================================================
